---- MODULE Spec2Model ----
(***************************************************************************)
(* A model of the Solaris Zones compute driver (nova_solaris.solariszones): *)
(*   - ZoneConfig, the edit/commit/cancel context manager (zone_config.py) *)
(*   - the lifecycle operations spawn and destroy of SolarisZonesDriver     *)
(*   - the cooperative scheduling of two operations on one zone             *)
(* Each part has its own variables and its own specification; a            *)
(* specification leaves the variables of the other parts unchanged.        *)
(***************************************************************************)
EXTENDS Integers, Sequences, FiniteSets, TLC

VARIABLES
    \* ---- ZoneConfig session against one zone (zone_config.py)
    committed,  \* the zone's committed configuration
    pending,    \* the backend's working copy inside an edit session
    bEditing,   \* the backend has an edit session open on the zone
    zcpc,       \* position of the caller: idle, body, raised, done
    editing,    \* ZoneConfig.editing
    excType,    \* the exception raised in the body of the with block
    calls,      \* backend calls issued during the session, with outcomes
    result,     \* what the caller of the with block receives
    before,     \* committed configuration when the session began
    last,       \* the last primitive called in the body, with its inputs
    nops,       \* number of primitives called in the body
    \* ---- one instance and its zone under the driver (driver.py)
    zstate,     \* the zone's state in the backend, or "absent"
    dop,        \* the driver operation in progress
    dpc,        \* its position
    inst,       \* the instance and the arguments of the operation
    dlog,       \* backend and image operations issued by the operation
    derr,       \* the exception in flight
    dres,       \* what the caller of the operation receives
    dfail,      \* some backend or image operation failed
    dstart,     \* the zone's state when the operation was called
    dprev,      \* the previous operation and how it ended
    \* ---- two green threads running operations on one zone (driver.py)
    cthr,       \* per thread: the operation it runs and its position
    copen,      \* per thread: the edit sessions it has open on the zone
    crun,       \* the thread that has the processor, or "none"
    clast,      \* the last session event: thread, event, sessions open before
    \* ---- resolving a connection descriptor into a storage URI (driver.py)
    fports,     \* the host's HBA ports, as fcinfo hba-port lists them
    fexec,      \* whether the fcinfo command can be executed
    fcache,     \* self._fc_hbas
    fconn,      \* the connection descriptor being resolved
    fpc,        \* position in _suri_from_volume_info
    fhbas,      \* the local hbas
    fround,     \* the round of _lookup_fc_volume_suri
    ftodo,      \* target WWNs still to look up in this round
    flog,       \* commands executed and sleeps, in order
    fres,       \* what the caller receives
    \* ---- resize / migration of one instance (driver.py)
    marg,       \* the arguments of the operation and the instance's flavor
    mop,        \* migrate_disk_and_power_off or finish_migration
    mpc,        \* its position
    mvol,       \* the old and the new root volume in the volume backend
    mpow,       \* the instance is powered on or off
    mlog,       \* backend operations issued, with their outcomes
    merr,       \* the step that failed and its error
    mwas,       \* the volumes when that step failed
    mres,       \* what the caller receives
    mzone,      \* the zone on this host: its CPU and memory caps, its boot device
    \* ---- _get_cpu_time on one zone (driver.py)
    kpc,        \* position in _get_cpu_time
    kattempt,   \* the attempt of the retry loop, from 1
    ktotal,     \* total
    kinit,      \* initial, the accumulator read before the per-CPU reads
    kfinal,     \* final, the accumulator read after them in this attempt
    ktodo,      \* CPUs of the list still to read in this attempt
    kreads,     \* the per-CPU values read in this attempt
    kn,         \* statistics reads made since the call
    kstop,      \* where the zone was seen not running, and the reads until then
    kres,       \* what the caller receives
    \* ---- power, suspend and live-migration operations on one zone (driver.py)
    ozone,      \* the zone in the backend: brand, state, committed configuration
    ometa,      \* instance.metadata: bootargs and bootargs_persist
    oconf,      \* CONF.solariszones.solariszones_boot_options
    ounset,     \* how the backend reports a property that has no value
    oop,        \* the operation in progress
    opc,        \* its position
    oarg,       \* its arguments
    oloc,       \* its local variables
    olog,       \* backend calls and callbacks issued by it, with outcomes
    oerr,       \* the exception in flight
    ores,       \* what the caller receives
    owas,       \* the zone and the metadata when the operation was called
    \* ---- _set_network on a freshly created configuration (driver.py)
    nanets,     \* the anet resources of the committed configuration, in order
    nvifs,      \* network_info: the virtual interfaces passed to the call
    npc,        \* position in _set_network
    nidx,       \* vifid + 1 of the interface the loop is at
    nlog,       \* the primitives of ZoneConfig called so far
    nres,       \* what the caller receives
    \* ---- attach_volume on one zone (driver.py)
    azone,      \* the zone in the backend: brand, state, ids of its device resources
    aarg,       \* the mount point and whether the connection resolves to a URI
    apc,        \* position in attach_volume
    alog,       \* the backend calls made, with their outcomes
    ares,       \* what the caller receives
    \* ---- _fetch_image called by concurrent spawns of one image (driver.py)
    ifiles,     \* the glance cache: what is at the image path and at image.downloading
    ilock,      \* the holder of the lock glance-image-<image_ref>, 0 when free
    ithr,       \* each spawn's position in _fetch_image and what it got
    ilog,       \* the downloads started, in order, with their outcomes
    \* ---- _get_zone_diagnostics on one zone, for one CPU statistic (driver.py)
    gpc,        \* position in _get_zone_diagnostics
    gattempt,   \* the attempt of the retry loop, from 1
    gdiag,      \* diagnostics[stat], the value being built
    ginit,      \* initial, the accumulator read at the start of the attempt
    greads,     \* the per-CPU values of the statistic read in the attempt
    gres,       \* what the caller receives
    \* ---- rebuild and a later destroy of one instance (driver.py)
    rmeta,      \* the keys of the instance's persisted system_metadata
    rinst,      \* the keys of system_metadata in the instance object of the call
    rhost,      \* the persisted host of the instance
    rzone,      \* whether the zone exists on the host the instance was launched on
    rnew,       \* whether a zone configuration exists on the evacuation target
    rarg,       \* the operation, its arguments, and the persisted state it found
    rpc,        \* position in rebuild or destroy
    rres,       \* what the caller receives
    \* ---- finish_revert_migration of one instance (driver.py)
    vmeta,      \* the resize keys in the instance's system_metadata
    vvol,       \* the original and the replacement root volume in the volume backend
    vzone,      \* the zone on this host: its caps and its boot device
    vpow,       \* the instance is powered on or off
    varg,       \* the metadata the call found
    vpc,        \* position in finish_revert_migration
    vlog,       \* backend operations issued, with their outcomes
    vres        \* what the caller receives

zcVars == <<committed, pending, bEditing, zcpc, editing, excType, calls,
            result, before, last, nops>>

drvVars == <<zstate, dop, dpc, inst, dlog, derr, dres, dfail, dstart, dprev>>

concVars == <<cthr, copen, crun, clast>>

\* Variables of the other parts of the model.
fcVars == <<fports, fexec, fcache, fconn, fpc, fhbas, fround, ftodo, flog, fres>>

\* Variables of the other parts of the model.
migVars == <<marg, mop, mpc, mvol, mpow, mlog, merr, mwas, mres, mzone>>
statVars == <<kpc, kattempt, ktotal, kinit, kfinal, ktodo, kreads, kn, kstop, kres>>
opVars == <<ozone, ometa, oconf, ounset, oop, opc, oarg, oloc, olog, oerr, ores, owas>>
netVars == <<nanets, nvifs, npc, nidx, nlog, nres>>
attVars == <<azone, aarg, apc, alog, ares>>
imgVars == <<ifiles, ilock, ithr, ilog>>
diagVars == <<gpc, gattempt, gdiag, ginit, greads, gres>>
rebVars == <<rmeta, rinst, rhost, rzone, rnew, rarg, rpc, rres>>
revVars == <<vmeta, vvol, vzone, vpow, varg, vpc, vlog, vres>>

\* Variables of the other parts of the model.
notZC == <<drvVars, concVars, fcVars, migVars, statVars, opVars, netVars, attVars, imgVars, diagVars, rebVars, revVars>>
notDrv == <<zcVars, concVars, fcVars, migVars, statVars, opVars, netVars, attVars, imgVars, diagVars, rebVars, revVars>>
notConc == <<zcVars, drvVars, fcVars, migVars, statVars, opVars, netVars, attVars, imgVars, diagVars, rebVars, revVars>>
notFC == <<zcVars, drvVars, concVars, migVars, statVars, opVars, netVars, attVars, imgVars, diagVars, rebVars, revVars>>
notMig == <<zcVars, drvVars, concVars, fcVars, statVars, opVars, netVars, attVars, imgVars, diagVars, rebVars, revVars>>
notStat == <<zcVars, drvVars, concVars, fcVars, migVars, opVars, netVars, attVars, imgVars, diagVars, rebVars, revVars>>
notOp == <<zcVars, drvVars, concVars, fcVars, migVars, statVars, netVars, attVars, imgVars, diagVars, rebVars, revVars>>
notNet == <<zcVars, drvVars, concVars, fcVars, migVars, statVars, opVars, attVars, imgVars, diagVars, rebVars, revVars>>
notAtt == <<zcVars, drvVars, concVars, fcVars, migVars, statVars, opVars, netVars, imgVars, diagVars, rebVars, revVars>>
notImg == <<zcVars, drvVars, concVars, fcVars, migVars, statVars, opVars, netVars, attVars, diagVars, rebVars, revVars>>
notDiag == <<zcVars, drvVars, concVars, fcVars, migVars, statVars, opVars, netVars, attVars, imgVars, rebVars, revVars>>
notReb == <<zcVars, drvVars, concVars, fcVars, migVars, statVars, opVars, netVars, attVars, imgVars, diagVars, revVars>>
notRev == <<zcVars, drvVars, concVars, fcVars, migVars, statVars, opVars, netVars, attVars, imgVars, diagVars, rebVars>>

------------------------------------------------------------------------------
(* Bounds *)
MaxBodyOps == 2

------------------------------------------------------------------------------
(* Zone configuration data *)
Res == {"global", "capped-memory"}
Props == {"prop"}
Values == {"v1", "v2"}
None == "None"

\* A resource is absent (has = FALSE, no values) or carries a value (or None)
\* for each property.
NoProps == [p \in Props |-> None]
ResVals == {[has |-> FALSE, val |-> NoProps]}
           \cup [has : {TRUE}, val : [Props -> Values \cup {None}]]
Absent == [has |-> FALSE, val |-> NoProps]
\* The property lists a caller can pass (None: the property is not listed).
PropLists == [Props -> Values \cup {None}]

\* Outcomes of a backend call: success, an ObjectError whose payload code
\* is RESOURCE_ALREADY_EXISTS, an ObjectError with another code, or an
\* exception that is no ObjectError.
Outcomes == {"ok", "EXISTS", "OBJERR", "EXC"}
NoErr == <<"none", "none">>

\* What the zonemgr backend can answer to addResource / setResourceProperties
\* on configuration cfg (a resource type that holds one instance).
AddFeasible(cfg, r, out) ==
    /\ out = "ok" => ~cfg[r].has
    /\ out = "EXISTS" => cfg[r].has
SetFeasible(cfg, r, out) ==
    /\ out = "ok" => cfg[r].has
    /\ out # "EXISTS"

Merge(old, props) ==
    [has |-> TRUE,
     val |-> [p \in Props |-> IF props[p] # None THEN props[p] ELSE old.val[p]]]

\* zone.addResource(Resource(r, props))
zoneAddResource(cfg, r, props, out) ==
    [cfg   |-> IF out = "ok" THEN [cfg EXCEPT ![r] = Merge(Absent, props)] ELSE cfg,
     calls |-> << <<"addResource", out>> >>,
     err   |-> IF out = "ok" THEN NoErr ELSE <<"addResource", out>>]

\* zone.setResourceProperties(Resource(r), props)
zoneSetResourceProperties(cfg, r, props, out) ==
    [cfg   |-> IF out = "ok" THEN [cfg EXCEPT ![r] = Merge(cfg[r], props)] ELSE cfg,
     calls |-> << <<"setResourceProperties", out>> >>,
     err   |-> IF out = "ok" THEN NoErr ELSE <<"setResourceProperties", out>>]

\* utils.lookup_resource_property: None on ObjectError, the exception on any
\* other error, else the first value (None when there is none).
lookup_resource_property(cfg, r, p, lk) ==
    IF lk = "EXC" THEN [val |-> None, err |-> <<"getResourceProperties", "EXC">>]
    ELSE IF lk = "OBJERR" \/ ~cfg[r].has THEN [val |-> None, err |-> NoErr]
    ELSE [val |-> cfg[r].val[p], err |-> NoErr]


------------------------------------------------------------------------------
(* ZoneConfig: the primitives called in the body of the with block.  Each    *)
(* takes the working configuration and the backend's answers and yields the *)
(* new configuration, the backend calls it issued and the error it raised.  *)

\* A setprop that asks the backend even when the value is already current.
setprop_noskip(cfg, r, p, v, lk, out) ==
    LET look == lookup_resource_property(cfg, r, p, lk)
        props == [q \in Props |-> IF q = p THEN v ELSE None]
    IN  IF look.err # NoErr THEN [cfg |-> cfg, calls |-> <<>>, err |-> look.err]
        ELSE IF look.val = None THEN zoneAddResource(cfg, r, props, out)
        ELSE zoneSetResourceProperties(cfg, r, props, out)

\* ZoneConfig.setprop(resource, prop, value)
setprop(cfg, r, p, v, lk, out) ==
    LET look == lookup_resource_property(cfg, r, p, lk)
        current == look.val
        props == [q \in Props |-> IF q = p THEN v ELSE None]
    IN  IF look.err # NoErr THEN [cfg |-> cfg, calls |-> <<>>, err |-> look.err]
        ELSE IF current # None /\ current = v
             THEN [cfg |-> cfg, calls |-> <<>>, err |-> NoErr]
        ELSE IF current = None THEN zoneAddResource(cfg, r, props, out)
        ELSE zoneSetResourceProperties(cfg, r, props, out)

\* An addresource that falls back to the property set whatever ignore_exists.
addresource_always(cfg, r, props, ignore_exists, out, out2) ==
    LET add == zoneAddResource(cfg, r, props, out)
    IN  IF out = "EXISTS"
        THEN LET set == zoneSetResourceProperties(cfg, r, props, out2)
             IN  [cfg |-> set.cfg, calls |-> add.calls \o set.calls, err |-> set.err]
        ELSE add

\* ZoneConfig.addresource(resource, props, ignore_exists): out answers the
\* addResource call, out2 the setResourceProperties call of the fallback.
addresource(cfg, r, props, ignore_exists, out, out2) ==
    LET add == zoneAddResource(cfg, r, props, out)
    IN  IF out = "ok" THEN add
        ELSE IF out = "EXISTS" /\ ignore_exists
        THEN LET set == zoneSetResourceProperties(cfg, r, props, out2)
             IN  [cfg |-> set.cfg, calls |-> add.calls \o set.calls, err |-> set.err]
        ELSE add

\* ZoneConfig.removeresources(resource, props)
removeresources(cfg, r, out) ==
    [cfg   |-> IF out = "ok" THEN [cfg EXCEPT ![r] = Absent] ELSE cfg,
     calls |-> << <<"removeResources", out>> >>,
     err   |-> IF out = "ok" THEN NoErr ELSE <<"removeResources", out>>]

\* ZoneConfig.clear_resource_props(resource, props)
clear_resource_props(cfg, r, p, out) ==
    [cfg   |-> IF out = "ok" /\ cfg[r].has
               THEN [cfg EXCEPT ![r].val[p] = None] ELSE cfg,
     calls |-> << <<"clearResourceProperties", out>> >>,
     err   |-> IF out = "ok" THEN NoErr ELSE <<"clearResourceProperties", out>>]

------------------------------------------------------------------------------
(* ZoneConfig.__enter__ and __exit__ *)

\* __enter__: editConfig; on failure the handler evaluates utils.utils, which
\* the utils module does not define, so an AttributeError is what is raised.
zcEnter(out) ==
    [editing |-> out = "ok",
     calls   |-> << <<"editConfig", out>> >>,
     err     |-> IF out = "ok" THEN NoErr ELSE <<"__enter__", "AttributeError">>]

\* An __exit__ that commits the configuration on the error path as well.
zcExit_commits(exc, ed, cout, xout) ==
    [calls |-> << <<"commitConfig", cout>> >>,
     err   |-> IF cout = "ok" THEN exc ELSE <<"commitConfig", cout>>]

\* __exit__(exc_type, ...): exc is the exception of the body (NoErr: none),
\* cout answers commitConfig and xout answers cancelConfig.
zcExit(exc, ed, cout, xout) ==
    IF exc # NoErr /\ ed
    THEN [calls |-> << <<"cancelConfig", xout>> >>,
          err   |-> IF xout = "ok" THEN exc ELSE <<"cancelConfig", xout>>]
    ELSE IF cout = "ok"
    THEN [calls |-> << <<"commitConfig", cout>> >>, err |-> exc]
    ELSE [calls |-> << <<"commitConfig", cout>>,
                       <<"cancelConfig", xout>> >>,
          err   |-> IF xout = "ok" THEN <<"commitConfig", cout>>
                    ELSE <<"cancelConfig", xout>>]

\* The backend's reaction to the commit/cancel calls of an __exit__.
Succeeded(cs, name) == \E i \in 1..Len(cs) : cs[i][1] = name /\ cs[i][2] = "ok"
Issued(cs, name) == Cardinality({i \in 1..Len(cs) : cs[i][1] = name})


------------------------------------------------------------------------------
(* The ZoneConfig session as a state machine: `with ZoneConfig(zone) as zc` *)

Cfgs == [Res -> ResVals]
\* Answers to the calls whose error code the code does not look at.
CallOutcomes == {"ok", "OBJERR"}
\* Answers to getResourceProperties: only an ObjectError is swallowed.
LookupOutcomes == {"ok", "OBJERR", "EXC"}
NoOp == [op |-> "none", r |-> None, v |-> None, props |-> NoProps, cur |-> None,
         lk |-> None,
         ignore |-> FALSE, out |-> None, out2 |-> None]

ZCInit ==
    /\ committed \in Cfgs
    /\ pending = committed
    /\ bEditing = FALSE
    /\ zcpc = "idle"
    /\ editing = FALSE
    /\ excType = NoErr
    /\ calls = <<>>
    /\ result = NoErr
    /\ before = committed
    /\ last = NoOp
    /\ nops = 0

\* with ZoneConfig(zone) as zc: __init__ and __enter__
ZCEnter ==
    /\ zcpc = "idle"
    /\ \E out \in CallOutcomes :
         LET e == zcEnter(out)
         IN  /\ editing' = e.editing
             /\ calls' = e.calls
             /\ result' = e.err
             /\ zcpc' = IF e.err = NoErr THEN "body" ELSE "done"
             /\ bEditing' = (bEditing \/ out = "ok")
             /\ pending' = committed
    /\ before' = committed
    /\ excType' = NoErr
    /\ last' = NoOp
    /\ nops' = 0
    /\ UNCHANGED <<committed>>
    /\ UNCHANGED notZC

\* The effect of one primitive of the body on the session.
Primitive(res, rec) ==
    /\ zcpc = "body"
    /\ nops < MaxBodyOps
    /\ pending' = res.cfg
    /\ calls' = calls \o res.calls
    /\ excType' = res.err
    /\ zcpc' = IF res.err = NoErr THEN "body" ELSE "raised"
    /\ last' = rec
    /\ nops' = nops + 1
    /\ UNCHANGED <<committed, bEditing, editing, result, before>>
    /\ UNCHANGED notZC

ZCSetprop ==
    \E r \in Res, p \in Props, v \in Values, lk \in LookupOutcomes, out \in Outcomes :
        LET cur == lookup_resource_property(pending, r, p, lk).val
        IN  /\ IF lk = "EXC" \/ cur = v THEN out = "ok"  \* no call to answer
               ELSE IF cur = None THEN AddFeasible(pending, r, out)
               ELSE SetFeasible(pending, r, out)
            /\ Primitive(setprop(pending, r, p, v, lk, out),
                         [NoOp EXCEPT !.op = "setprop", !.r = r, !.v = v,
                                      !.cur = IF lk = "EXC" THEN "EXC" ELSE cur,
                                      !.lk = lk, !.out = out])

ZCAddresource ==
    \E r \in Res, props \in PropLists, ig \in BOOLEAN,
       out \in Outcomes, out2 \in Outcomes :
        /\ AddFeasible(pending, r, out)
        /\ IF out = "EXISTS" /\ ig THEN SetFeasible(pending, r, out2)
           ELSE out2 = "ok"  \* no second call to answer
        /\ Primitive(addresource(pending, r, props, ig, out, out2),
                     [NoOp EXCEPT !.op = "addresource", !.r = r, !.props = props,
                                  !.ignore = ig, !.out = out, !.out2 = out2])

ZCRemoveresources ==
    \E r \in Res, out \in CallOutcomes :
        Primitive(removeresources(pending, r, out),
                  [NoOp EXCEPT !.op = "removeresources", !.r = r, !.out = out])

ZCClearProps ==
    \E r \in Res, p \in Props, out \in CallOutcomes :
        Primitive(clear_resource_props(pending, r, p, out),
                  [NoOp EXCEPT !.op = "clear_resource_props", !.r = r, !.out = out])

\* The body raises an error of its own (e.g. NotImplementedError).
ZCBodyRaise ==
    /\ zcpc = "body"
    /\ zcpc' = "raised"
    /\ excType' = <<"body", "EXC">>
    /\ UNCHANGED <<committed, pending, bEditing, editing, calls, result,
                   before, last, nops>>
    /\ UNCHANGED notZC

\* The with block is left: __exit__, and the backend's commit or cancel.
ZCExit ==
    /\ zcpc \in {"body", "raised"}
    /\ \E cout \in CallOutcomes, xout \in CallOutcomes :
         LET x == zcExit(excType, editing, cout, xout)
         IN  /\ calls' = calls \o x.calls
             /\ result' = x.err
             /\ committed' = IF Succeeded(x.calls, "commitConfig")
                             THEN pending ELSE committed
             /\ bEditing' = ~(\/ Succeeded(x.calls, "commitConfig")
                              \/ Succeeded(x.calls, "cancelConfig"))
             \* the working copy is not observable once the block is left
             /\ pending' = committed'
    /\ zcpc' = "done"
    /\ UNCHANGED <<editing, excType, before, last, nops>>
    /\ UNCHANGED notZC

\* The caller goes on; the ZoneConfig object is dropped.
ZCReturn ==
    /\ zcpc = "done"
    /\ zcpc' = "idle"
    /\ editing' = FALSE
    /\ excType' = NoErr
    /\ calls' = <<>>
    /\ result' = NoErr
    /\ last' = NoOp
    /\ nops' = 0
    /\ before' = committed
    /\ UNCHANGED <<committed, pending, bEditing>>
    /\ UNCHANGED notZC

ZCNext ==
    \/ ZCEnter \/ ZCSetprop \/ ZCAddresource \/ ZCRemoveresources
    \/ ZCClearProps \/ ZCBodyRaise \/ ZCExit \/ ZCReturn

allVars == <<zcVars, notZC>>



------------------------------------------------------------------------------
(* Claims about ZoneConfig, checked under SpecZC *)

\* The backend calls a step of the body added to the session's log.
NewCalls == SubSeq(calls', Len(calls) + 1, Len(calls'))
BodyStep(op) == nops' = nops + 1 /\ last'.op = op

\* C1: setprop issues no backend mutation call (neither addResource nor
\* setResourceProperties) when the property's current value already equals
\* the value; a setprop repeated right after a successful one with the same
\* resource and value, the lookup answering, therefore changes nothing.
C1_SetpropSkipsCurrentValue ==
    [][/\ (BodyStep("setprop") /\ last'.cur = last'.v)
            => (NewCalls = <<>> /\ pending' = pending /\ excType' = NoErr)
       /\ (/\ BodyStep("setprop") /\ last.op = "setprop"
           /\ last'.r = last.r /\ last'.v = last.v /\ last'.lk = "ok")
            => (NewCalls = <<>> /\ pending' = pending)]_allVars

\* A setprop was repeated with the value the first one stored: one backend
\* mutation call in all.
C1_Witness ==
    /\ nops = 2 /\ last.op = "setprop" /\ last.cur = last.v /\ zcpc = "body"
    /\ Len(calls) = 2 /\ Issued(calls, "addResource") = 1

\* C2: when the body of a session raises, that error reaches the caller and
\* the committed configuration is the one of before the session.
C2_BodyErrorPropagatesUnchanged ==
    (zcpc = "done" /\ editing /\ excType # NoErr)
        => (result = excType /\ committed = before)

\* C3 as stated: a body that completes ends with one commitConfig and no
\* cancelConfig, a body that raises with one cancelConfig and no commitConfig.
C3_ExactlyTheMatchingCall ==
    (zcpc = "done" /\ editing) =>
        IF excType = NoErr
        THEN Issued(calls, "commitConfig") = 1 /\ Issued(calls, "cancelConfig") = 0
        ELSE Issued(calls, "cancelConfig") = 1 /\ Issued(calls, "commitConfig") = 0

\* C3 amended: a body that completes ends with exactly one commitConfig, and
\* cancelConfig is issued (once, right after it) exactly when that commit
\* failed; a body that raises ends with one cancelConfig and no commitConfig.
C3_CommitOrCancel ==
    (zcpc = "done" /\ editing) =>
        IF excType = NoErr
        THEN /\ Issued(calls, "commitConfig") = 1
             /\ Issued(calls, "cancelConfig")
                   = (IF Succeeded(calls, "commitConfig") THEN 0 ELSE 1)
             /\ Succeeded(calls, "commitConfig")
                   => calls[Len(calls)][1] = "commitConfig"
             /\ ~Succeeded(calls, "commitConfig")
                   => /\ calls[Len(calls)][1] = "cancelConfig"
                      /\ calls[Len(calls) - 1][1] = "commitConfig"
        ELSE Issued(calls, "cancelConfig") = 1 /\ Issued(calls, "commitConfig") = 0

\* A session whose body completed and whose commit failed: one commit, then
\* one cancel.
C3_Witness ==
    /\ zcpc = "done" /\ editing /\ excType = NoErr /\ nops > 0
    /\ ~Succeeded(calls, "commitConfig")
    /\ Issued(calls, "commitConfig") = 1 /\ Issued(calls, "cancelConfig") = 1

\* C4: when commitConfig fails, cancelConfig is attempted exactly once and
\* the caller receives the commit's error, whatever the cancel's outcome.
C4_CommitErrorReachesCaller ==
    (zcpc = "done" /\ Issued(calls, "commitConfig") = 1
                   /\ ~Succeeded(calls, "commitConfig"))
        => (Issued(calls, "cancelConfig") = 1 /\ result[1] = "commitConfig")

\* C6: addresource when the backend answers that the resource exists: with
\* ignore_exists the properties are set on the existing resource and the call
\* returns (the error of that set, if it fails, propagates); without it the
\* error propagates and nothing is set. Any other backend error propagates.
C6_AddresourceExists ==
    [][BodyStep("addresource") =>
        LET l == last'
        IN  /\ (l.out = "EXISTS" /\ l.ignore) =>
                 /\ NewCalls = << <<"addResource", "EXISTS">>,
                                  <<"setResourceProperties", l.out2>> >>
                 /\ l.out2 = "ok" =>
                      /\ excType' = NoErr
                      /\ \A p \in Props :
                           pending'[l.r].val[p] =
                              IF l.props[p] # None THEN l.props[p]
                              ELSE pending[l.r].val[p]
                 /\ l.out2 # "ok" =>
                      /\ excType' = <<"setResourceProperties", l.out2>>
                      /\ pending' = pending
            /\ (l.out # "ok" /\ ~(l.out = "EXISTS" /\ l.ignore)) =>
                 /\ NewCalls = << <<"addResource", l.out>> >>
                 /\ excType' = <<"addResource", l.out>>
                 /\ pending' = pending]_allVars

\* addresource met an existing resource, ignore_exists was set, and a
\* property it was given now has the new value in the working copy.
C6_Witness ==
    /\ last.op = "addresource" /\ last.out = "EXISTS" /\ last.ignore
    /\ zcpc = "body"
    /\ \E p \in Props : /\ last.props[p] # None
                        /\ pending[last.r].val[p] = last.props[p]
                        /\ committed[last.r].val[p] # last.props[p]


------------------------------------------------------------------------------
(* The driver: zone states, power states and the backend's lifecycle verbs  *)

ZONE_STATES == {"configured", "incomplete", "unavailable", "installed", "ready",
                "running", "shutting_down", "down", "mounted"}
NoZone == "absent"
ZONE_BRAND_SOLARIS == "solaris"
ZONE_BRAND_SOLARIS_KZ == "solaris-kz"
MEMORY_ALIGNMENT_IN_MB == 256

\* A power-state table that files an installed zone under NOSTATE.
POWER_STATE_installed_nostate(zs) ==
    CASE zs \in {"configured", "incomplete", "unavailable", "mounted", "installed"}
           -> "NOSTATE"
      [] OTHER -> "RUNNING"

\* SOLARISZONES_POWER_STATE[zone.state]
SOLARISZONES_POWER_STATE(zs) ==
    CASE zs \in {"configured", "incomplete", "unavailable", "mounted"} -> "NOSTATE"
      [] zs = "installed" -> "SHUTDOWN"
      [] zs \in {"ready", "running", "shutting_down", "down"} -> "RUNNING"

get_state(zs) == SOLARISZONES_POWER_STATE(zs)

\* The states in which a lifecycle verb of the backend can succeed, and the
\* state it then leaves the zone in (its normal effect).
VerbApplies(verb, zs) ==
    CASE verb = "create" -> zs = NoZone
      [] verb \in {"install", "attach"} -> zs = "configured"
      [] verb = "boot" -> zs \in {"installed", "ready"}
      [] verb = "halt" -> zs \in {"ready", "running", "shutting_down", "down"}
      [] verb = "uninstall" -> zs \in {"installed", "incomplete", "unavailable"}
      [] verb = "delete" -> zs # NoZone
      [] OTHER -> TRUE
Effect(verb, zs) ==
    CASE verb = "create" -> "configured"
      [] verb \in {"install", "attach"} -> "installed"
      [] verb = "boot" -> "running"
      [] verb = "halt" -> "installed"
      [] verb = "uninstall" -> "configured"
      [] verb = "delete" -> NoZone
      [] OTHER -> zs
\* The states a failed verb can leave the zone in.
FailEffects(verb, zs) ==
    CASE verb \in {"install", "attach"} -> {zs, "incomplete"}
      [] verb = "halt" -> {zs, "installed"}
      [] OTHER -> {zs}
VerbOutcomes(verb, zs) == IF VerbApplies(verb, zs) THEN {"ok", "fail"} ELSE {"fail"}

\* A lookup that lets the backend's NotFoundError through.
get_zone_by_name_raises(zs) ==
    IF zs = NoZone THEN [found |-> FALSE, err |-> "NotFoundError"]
    ELSE [found |-> TRUE, err |-> "none"]

\* _get_zone_by_name: None when the backend reports NotFoundError.
get_zone_by_name(zs) ==
    IF zs = NoZone THEN [found |-> FALSE, err |-> "none"]
    ELSE [found |-> TRUE, err |-> "none"]

\* A flavor validation without the alignment check.
validate_flavor_unchecked(brandSpec, memory_mb) ==
    [brand |-> IF brandSpec = "unset" THEN ZONE_BRAND_SOLARIS ELSE brandSpec,
     err |-> "none"]

\* _validate_flavor: the brand of the flavor (default 'solaris'); a kernel
\* zone's memory must be a multiple of 256 MB.
validate_flavor(brandSpec, memory_mb) ==
    LET brand == IF brandSpec = "unset" THEN ZONE_BRAND_SOLARIS ELSE brandSpec
    IN  [brand |-> brand,
         err |-> IF brand = ZONE_BRAND_SOLARIS_KZ
                    /\ memory_mb % MEMORY_ALIGNMENT_IN_MB # 0
                 THEN "MemoryAlignmentIncorrect" ELSE "none"]


------------------------------------------------------------------------------
(* The driver: spawn *)

Brands == {"unset", "solaris", "solaris-kz", "solaris10"}
MemSizes == {2000, 2048}
Images == {"none", "ovf", "raw"}   \* no image_ref, a unified archive, a raw image
ZONE_BRAND_TEMPLATE == {ZONE_BRAND_SOLARIS, ZONE_BRAND_SOLARIS_KZ}

NoInst == [brand |-> "unset", memory_mb |-> 2048, image |-> "none",
           power_on |-> FALSE, configdrive |-> FALSE,
           task_state |-> "none", old_vm_state |-> "none", evac_from |-> FALSE,
           volids |-> {}]
SpawnInputs == {i \in [brand : Brands, memory_mb : MemSizes, image : Images,
                       power_on : BOOLEAN, configdrive : BOOLEAN,
                       task_state : {"none"}, old_vm_state : {"none"},
                       evac_from : {FALSE}, volids : {{}}] : TRUE}
NoPrev == [op |-> "none", res |-> "none", zstart |-> NoZone, zend |-> NoZone]

Brand(i) == validate_flavor(i.brand, i.memory_mb).brand

\* A spawn that powers on before it installs.
spawnSteps_power_first ==
    <<"sp_validate", "sp_image", "sp_create", "sp_configure", "sp_power",
      "sp_install", "sp_cd", "sp_return">>

\* The steps of spawn, in the order of the code.
spawnSteps ==
    <<"sp_validate", "sp_image", "sp_create", "sp_configure", "sp_install",
      "sp_power", "sp_cd", "sp_return">>

\* A cleanup that stops after the uninstall.
spawnCleanup_uninstall_only == <<"sp_cleanup_uninstall">>

\* The steps of the except block of spawn, in the order of the code.
spawnCleanup == <<"sp_cleanup_uninstall", "sp_cleanup_delete">>

spawnAfter(pc) ==
    LET i == CHOOSE k \in 1..Len(spawnSteps) : spawnSteps[k] = pc
    IN  spawnSteps[i + 1]

DrvInit ==
    /\ zstate \in {NoZone} \cup ZONE_STATES
    /\ dop = "none"
    /\ dpc = "idle"
    /\ inst = NoInst
    /\ dlog = <<>>
    /\ derr = "none"
    /\ dres = "none"
    /\ dfail = FALSE
    /\ dstart = zstate
    /\ dprev = NoPrev

\* A call of operation op with arguments i.
Call(op, i, pc) ==
    /\ dpc = "idle"
    /\ dop' = op
    /\ inst' = i
    /\ dpc' = pc
    /\ dlog' = <<>>
    /\ derr' = "none"
    /\ dres' = "none"
    /\ dfail' = FALSE
    /\ dstart' = zstate
    /\ UNCHANGED <<zstate, dprev>>
    /\ UNCHANGED notDrv

\* One backend verb on the zone, answered out; a failed verb leaves zs2.
Verb(verb, out, zs2) ==
    /\ out \in VerbOutcomes(verb, zstate)
    /\ zs2 \in IF out = "ok" THEN {Effect(verb, zstate)}
               ELSE FailEffects(verb, zstate)
    /\ zstate' = zs2
    /\ dlog' = Append(dlog, <<verb, zstate, out>>)
    /\ dfail' = (dfail \/ out # "ok")

\* A step that issues no backend verb.
NoVerb == UNCHANGED <<zstate, dlog, dfail>>

\* An operation other than a verb (image, configuration session), answered out.
Other(what, out) ==
    /\ out \in {"ok", "fail"}
    /\ dlog' = Append(dlog, <<what, zstate, out>>)
    /\ dfail' = (dfail \/ out # "ok")
    /\ UNCHANGED zstate

\* How a step of spawn ends: an error outside the try block reaches the
\* caller at once, one inside it starts the cleanup.
Raise(err) == dres' = err /\ dpc' = "done" /\ UNCHANGED derr
RaiseInTry(err) == derr' = err /\ dpc' = spawnCleanup[1] /\ UNCHANGED dres
Goto(pc) == dpc' = pc /\ UNCHANGED <<derr, dres>>
\* After a step of the cleanup: the next one, or the bare raise that ends it.
CleanupGoto ==
    LET i == CHOOSE k \in 1..Len(spawnCleanup) : spawnCleanup[k] = dpc
    IN  IF i < Len(spawnCleanup) THEN Goto(spawnCleanup[i + 1])
        ELSE dres' = derr /\ dpc' = "done" /\ UNCHANGED derr
Frame == UNCHANGED <<dop, inst, dstart, dprev>> /\ UNCHANGED notDrv

Spawn == \E i \in SpawnInputs : Call("spawn", i, "sp_validate")

SpValidate ==
    /\ dpc = "sp_validate"
    /\ LET v == validate_flavor(inst.brand, inst.memory_mb)
       IN  IF v.err # "none" THEN Raise(v.err) ELSE Goto(spawnAfter(dpc))
    /\ NoVerb
    /\ Frame

\* _fetch_image, then _validate_image (ovf) or the copy of a raw image
SpImage ==
    /\ dpc = "sp_image"
    /\ IF inst.image = "none" THEN NoVerb /\ Goto(spawnAfter(dpc))
       ELSE \E fo \in {"ok", "fail"}, so \in {"ok", "fail"} :
            LET second == IF inst.image = "ovf" THEN "validate_image" ELSE "copy_file"
                rawOnSolaris == inst.image = "raw" /\ Brand(inst) # ZONE_BRAND_SOLARIS_KZ
                fetch == << <<"fetch_image", zstate, fo>> >>
            IN  /\ (fo # "ok" \/ rawOnSolaris) => so = "ok"
                /\ dfail' = (dfail \/ fo # "ok" \/ so # "ok")
                /\ UNCHANGED zstate
                /\ IF fo # "ok"
                   THEN dlog' = dlog \o fetch /\ Raise("FetchError")
                   ELSE IF rawOnSolaris
                   THEN dlog' = dlog \o fetch /\ Raise("ImageUnacceptable")
                   ELSE /\ dlog' = dlog \o fetch \o << <<second, zstate, so>> >>
                        /\ IF so # "ok" THEN Raise("ImageUnacceptable")
                           ELSE Goto(spawnAfter(dpc))
    /\ Frame

\* _create_config up to zone_manager.create
SpCreate ==
    /\ dpc = "sp_create"
    /\ IF get_zone_by_name(zstate).found
       THEN NoVerb /\ RaiseInTry("InstanceExists")
       ELSE IF Brand(inst) \notin ZONE_BRAND_TEMPLATE
       THEN NoVerb /\ RaiseInTry("NovaException")
       ELSE \E out \in {"ok", "fail"}, zs2 \in {NoZone} \cup ZONE_STATES :
            /\ Verb("create", out, zs2)
            /\ IF out = "ok" THEN Goto(spawnAfter(dpc))
               ELSE RaiseInTry("BackendError")
    /\ Frame

\* _create_config after the creation: the configuration sessions
SpConfigure ==
    /\ dpc = "sp_configure"
    /\ \E out \in {"ok", "fail"} :
         /\ Other("configure", out)
         /\ IF out = "ok" THEN Goto(spawnAfter(dpc)) ELSE RaiseInTry("BackendError")
    /\ Frame

\* _install (an archive to install from) or _attach
SpInstall ==
    /\ dpc = "sp_install"
    /\ IF ~get_zone_by_name(zstate).found
       THEN NoVerb /\ RaiseInTry("InstanceNotFound")
       ELSE \E out \in {"ok", "fail"}, zs2 \in ZONE_STATES :
            /\ Verb(IF inst.image = "ovf" THEN "install" ELSE "attach", out, zs2)
            /\ IF out = "ok" THEN Goto(spawnAfter(dpc))
               ELSE RaiseInTry("BackendError")
    /\ Frame

\* if power_on: _power_on
SpPower ==
    /\ dpc = "sp_power"
    /\ IF ~inst.power_on THEN NoVerb /\ Goto(spawnAfter(dpc))
       ELSE IF ~get_zone_by_name(zstate).found
       THEN NoVerb /\ RaiseInTry("InstanceNotFound")
       ELSE \E out \in {"ok", "fail"}, zs2 \in ZONE_STATES :
            /\ Verb("boot", out, zs2)
            /\ IF out = "ok" THEN Goto(spawnAfter(dpc))
               ELSE RaiseInTry("InstancePowerOnFailure")
    /\ Frame

\* if configdrive.required_by(instance): _waitfor_copydone, _unset_configdrive
SpConfigDrive ==
    /\ dpc = "sp_cd"
    /\ IF ~inst.configdrive THEN NoVerb /\ Goto(spawnAfter(dpc))
       ELSE \E out \in {"ok", "fail"} :
            /\ Other("unset_configdrive", out)
            /\ IF out = "ok" THEN Goto(spawnAfter(dpc))
               ELSE RaiseInTry("BackendError")
    /\ Frame

SpReturn ==
    /\ dpc = "sp_return"
    /\ dres' = "ok" /\ dpc' = "done" /\ UNCHANGED derr
    /\ NoVerb
    /\ Frame

\* except: try _uninstall (its errors are logged only)
SpCleanupUninstall ==
    /\ dpc = "sp_cleanup_uninstall"
    /\ IF ~get_zone_by_name(zstate).found \/ zstate = "configured"
       THEN NoVerb
       ELSE \E out \in {"ok", "fail"}, zs2 \in ZONE_STATES : Verb("uninstall", out, zs2)
    /\ CleanupGoto
    /\ Frame

\* then try _delete_config (its errors are logged only), and re-raise
SpCleanupDelete ==
    /\ dpc = "sp_cleanup_delete"
    /\ IF ~get_zone_by_name(zstate).found
       THEN NoVerb
       ELSE \E out \in {"ok", "fail"}, zs2 \in {NoZone} \cup ZONE_STATES :
              Verb("delete", out, zs2)
    /\ CleanupGoto
    /\ Frame

\* The operation has returned or raised; the driver is ready for the next.
DReturn ==
    /\ dpc = "done"
    /\ dpc' = "idle"
    /\ dprev' = [op |-> dop, res |-> dres, zstart |-> dstart, zend |-> zstate]
    /\ dop' = "none"
    /\ inst' = NoInst
    /\ dlog' = <<>>
    /\ derr' = "none"
    /\ dres' = "none"
    /\ dfail' = FALSE
    /\ dstart' = zstate
    /\ UNCHANGED zstate
    /\ UNCHANGED notDrv


------------------------------------------------------------------------------
(* The driver: destroy *)

\* The system_metadata tags under which a resize leaves volume ids behind.
VolTags == <<"old_instance_volid", "new_instance_volid">>
DestroyInputs ==
    {i \in [brand : {"unset"}, memory_mb : {2048}, image : {"none"},
            power_on : {FALSE}, configdrive : BOOLEAN,
            task_state : {"none", "resize_reverting"},
            old_vm_state : {"none", "resized", "active"},
            evac_from : BOOLEAN,
            volids : {{}, {VolTags[1]}, {VolTags[1], VolTags[2]}}] :
        \* old_vm_state is what nova records for an instance being resized
        (i.task_state = "resize_reverting") = (i.old_vm_state # "none")}

\* _power_off when zone.halt() answered out and left the zone in zs2: an
\* error is ignored if the zone reached the shut-down power state anyway.
power_off(out, zs2) ==
    IF out = "ok" \/ get_state(zs2) = "SHUTDOWN" THEN "none"
    ELSE "InstancePowerOffFailure"

\* A destroy that lets the error of a teardown step reach its caller.
Caught_reraises == Raise("BackendError")

\* A destroy that goes on with the files after a teardown step has failed.
Caught_continues == Goto("de_files")

\* An error in the try block of destroy is logged; the volumes come next.
Caught == Goto("de_volumes")

\* A volume cleanup that runs whatever the task state.
cleans_volumes_always(task_state) == TRUE

\* if instance['task_state'] == task_states.RESIZE_REVERTING: return
cleans_volumes(task_state) == task_state # "resize_reverting"

Destroy == \E i \in DestroyInputs : Call("destroy", i, "de_entry")

\* The early returns: a revert of a resize, and the source of an evacuation.
DeEntry ==
    /\ dpc = "de_entry"
    /\ IF inst.task_state = "resize_reverting" /\ inst.old_vm_state = "resized"
       THEN dres' = "ok" /\ dpc' = "done"
       ELSE IF inst.evac_from /\ inst.task_state = "none"
       THEN dres' = "ok" /\ dpc' = "done"
       ELSE dres' = dres /\ dpc' = "de_console"
    /\ UNCHANGED derr
    /\ NoVerb
    /\ Frame

\* The VNC console service is disabled and removed; errors are dropped.
DeConsole ==
    /\ dpc = "de_console"
    /\ \E has \in BOOLEAN, out \in {"ok", "fail"} :
         /\ ~has => out = "ok"
         /\ dlog' = IF has THEN Append(dlog, <<"console_service", zstate, out>>)
                    ELSE dlog
    /\ UNCHANGED <<zstate, dfail>>
    /\ Goto("de_lookup")
    /\ Frame

\* zone = self._get_zone_by_name(name); if zone is None: return
DeLookup ==
    /\ dpc = "de_lookup"
    /\ LET z == get_zone_by_name(zstate)
       IN  IF z.err # "none" THEN Raise(z.err)
           ELSE IF ~z.found THEN dres' = "ok" /\ dpc' = "done" /\ UNCHANGED derr
           ELSE Goto("de_poweroff")
    /\ NoVerb
    /\ Frame

\* if self._get_state(zone) == power_state.RUNNING: self._power_off(HARD)
DePowerOff ==
    /\ dpc = "de_poweroff"
    /\ IF get_state(zstate) # "RUNNING" THEN NoVerb /\ Goto("de_uninstall")
       ELSE \E out \in {"ok", "fail"}, zs2 \in ZONE_STATES :
            /\ Verb("halt", out, zs2)
            /\ IF power_off(out, zs2) = "none" THEN Goto("de_uninstall") ELSE Caught
    /\ Frame

\* if self._get_state(zone) == power_state.SHUTDOWN: self._uninstall(instance)
DeUninstall ==
    /\ dpc = "de_uninstall"
    /\ IF get_state(zstate) # "SHUTDOWN" \/ zstate = "configured"
       THEN NoVerb /\ Goto("de_delete")
       ELSE \E out \in {"ok", "fail"}, zs2 \in ZONE_STATES :
            /\ Verb("uninstall", out, zs2)
            /\ IF out = "ok" THEN Goto("de_delete") ELSE Caught
    /\ Frame

\* if self._get_state(zone) == power_state.NOSTATE: self._delete_config(instance)
DeDelete ==
    /\ dpc = "de_delete"
    /\ IF get_state(zstate) # "NOSTATE" THEN NoVerb /\ Goto("de_files")
       ELSE \E out \in {"ok", "fail"}, zs2 \in {NoZone} \cup ZONE_STATES :
            /\ Verb("delete", out, zs2)
            /\ IF out = "ok" THEN Goto("de_files") ELSE Caught
    /\ Frame

\* The config drive and the instance directory are removed; an OSError of
\* either removal is dropped.
DeFiles ==
    /\ dpc = "de_files"
    /\ \E o1, o2 \in {"ok", "fail"} :
         /\ ~inst.configdrive => o1 = "ok"
         /\ dlog' = dlog
                    \o (IF inst.configdrive
                        THEN << <<"remove_configdrive", zstate, o1>> >> ELSE <<>>)
                    \o << <<"delete_instance_dir", zstate, o2>> >>
         /\ dfail' = (dfail \/ o1 # "ok" \/ o2 # "ok")
    /\ UNCHANGED zstate
    /\ Goto("de_volumes")
    /\ Frame

\* The volumes a resize left behind, unless the resize is being reverted.
DeVolumes ==
    /\ dpc = "de_volumes"
    /\ dres' = "ok" /\ dpc' = "done" /\ UNCHANGED derr
    /\ IF ~cleans_volumes(inst.task_state) THEN NoVerb /\ UNCHANGED inst
       ELSE \E outs \in [1..2 -> {"ok", "fail"}] :
            LET Entry(k) == IF VolTags[k] \in inst.volids
                            THEN << <<"volume_delete", zstate, outs[k]>> >> ELSE <<>>
            IN  /\ \A k \in 1..2 : VolTags[k] \notin inst.volids => outs[k] = "ok"
                /\ dlog' = dlog \o Entry(1) \o Entry(2)
                /\ dfail' = (dfail \/ \E k \in 1..2 : outs[k] # "ok")
                /\ inst' = [inst EXCEPT !.volids =
                               {VolTags[k] : k \in {j \in 1..2 : outs[j] # "ok"}}
                               \cap inst.volids]
                /\ UNCHANGED zstate
    /\ UNCHANGED <<dop, dstart, dprev>> /\ UNCHANGED notDrv

DrvNext ==
    \/ Spawn \/ SpValidate \/ SpImage \/ SpCreate \/ SpConfigure \/ SpInstall
    \/ SpPower \/ SpConfigDrive \/ SpReturn \/ SpCleanupUninstall
    \/ SpCleanupDelete
    \/ Destroy \/ DeEntry \/ DeConsole \/ DeLookup \/ DePowerOff \/ DeUninstall
    \/ DeDelete \/ DeFiles \/ DeVolumes
    \/ DReturn

------------------------------------------------------------------------------
(* Two operations on one zone, scheduled cooperatively                      *)
(* An operation is the sequence of its session events in program order:     *)
(*   "E" ZoneConfig.__enter__ (editConfig)   "X" ZoneConfig.__exit__        *)
(*   "m" a mutation call (add/set/remove/clear)                             *)
(*   "V" a lifecycle verb of the backend     "Y" greenthread.sleep          *)
(* A green thread gives up the processor only in greenthread.sleep and at   *)
(* the end of its operation.                                                *)

Threads == {"t1", "t2"}

\* A _power_on that sleeps inside its first with block.
power_on_events_sleeping == <<"E", "m", "Y", "X", "V", "E", "m", "X">>

\* _power_on: clear bootargs, zone.boot, restore bootargs
power_on_events == <<"E", "m", "X", "V", "E", "m", "X">>

\* _set_boot_device: _suri_from_volume_info (which may sleep), then the session
set_boot_device_events == <<"Y", "E", "m", "m", "X">>

\* attach_volume / detach_volume: the suri lookup, the session, zone.apply,
\* and the session that undoes the change when apply fails
attach_volume_events == <<"Y", "E", "m", "X", "V", "E", "m", "X">>
detach_volume_events == <<"Y", "E", "m", "X", "V", "E", "m", "X">>

\* _create_config: zone_manager.create, then global properties, zonepath,
\* boot device, volumes, cpus, memory cap, network, config drive
create_config_events ==
    <<"V", "E", "m", "X", "E", "m", "X">> \o set_boot_device_events
      \o attach_volume_events
      \o <<"E", "m", "X", "E", "m", "X", "E", "m", "m", "X",
           "E", "m", "m", "X", "E", "m", "X">>

\* spawn: _create_config, _install or _attach, _power_on, _waitfor_copydone,
\* _unset_configdrive
spawn_events ==
    create_config_events \o <<"E", "X", "V">> \o power_on_events
      \o <<"Y", "E", "m", "X", "V">>

\* reboot: _power_on if the zone is shut down; else clear bootargs, reboot,
\* restore bootargs
reboot_events == power_on_events \o <<"E", "m", "X", "V", "E", "m", "X">>

\* suspend: _set_suspend, or remove the suspend resource and _set_suspend;
\* then zone.suspend
suspend_events == <<"E", "m", "X", "E", "m", "X", "E", "m", "X", "V">>

Ops == {"spawn", "destroy", "power_on", "power_off", "reboot", "suspend",
        "resume", "attach_volume", "detach_volume"}
OpEvents(op) ==
    CASE op = "spawn" -> spawn_events
      [] op = "destroy" -> <<"V", "V", "V">>
      [] op = "power_on" -> power_on_events
      [] op = "power_off" -> <<"V">>
      [] op = "reboot" -> reboot_events
      [] op = "suspend" -> suspend_events
      [] op = "resume" -> <<"V">>
      [] op = "attach_volume" -> attach_volume_events
      [] op = "detach_volume" -> detach_volume_events
      [] OTHER -> <<>>

Evs(t) == OpEvents(cthr[t].op)
AtEnd(t) == cthr[t].pc > Len(Evs(t))
Cur(t) == IF AtEnd(t) THEN "end" ELSE Evs(t)[cthr[t].pc]
\* The position after the with block that begins or continues at pc.
AfterBlock(evs, pc) ==
    IF \E k \in pc..Len(evs) : evs[k] = "X"
    THEN 1 + CHOOSE k \in pc..Len(evs) :
               evs[k] = "X" /\ \A j \in pc..(k - 1) : evs[j] # "X"
    ELSE Len(evs) + 1

NoEvent == [thr |-> "none", ev |-> "none", open |-> 0]
ConcInit ==
    /\ cthr = [t \in Threads |-> [op |-> "none", pc |-> 1]]
    /\ copen = [t \in Threads |-> 0]
    /\ crun = "none"
    /\ clast = NoEvent

Moves(t, pc) == cthr' = [cthr EXCEPT ![t].pc = pc]
Event(t) == clast' = [thr |-> t, ev |-> Cur(t), open |-> copen[t]]

\* A call of a driver operation arrives and its green thread starts.
CStart(t) ==
    /\ crun = "none" /\ cthr[t].op = "none"
    /\ \E op \in Ops : cthr' = [cthr EXCEPT ![t] = [op |-> op, pc |-> 1]]
    /\ crun' = t
    /\ UNCHANGED <<copen, clast>>
    /\ UNCHANGED notConc

\* The hub resumes a thread that was suspended in greenthread.sleep.
CResume(t) ==
    /\ crun = "none" /\ cthr[t].op # "none"
    /\ crun' = t
    /\ UNCHANGED <<cthr, copen, clast>>
    /\ UNCHANGED notConc

\* with ZoneConfig(zone) as zc: __enter__ opens the session
CEnter(t) ==
    /\ crun = t /\ Cur(t) = "E"
    /\ copen' = [copen EXCEPT ![t] = @ + 1]
    /\ Moves(t, cthr[t].pc + 1) /\ Event(t)
    /\ UNCHANGED crun
    /\ UNCHANGED notConc

\* a branch that does not run the with block
CSkip(t) ==
    /\ crun = t /\ Cur(t) = "E"
    /\ Moves(t, AfterBlock(Evs(t), cthr[t].pc))
    /\ UNCHANGED <<copen, crun, clast>>
    /\ UNCHANGED notConc

\* zc.setprop / addresource / removeresources / clear_resource_props
CMut(t) ==
    /\ crun = t /\ Cur(t) = "m"
    /\ Moves(t, cthr[t].pc + 1) /\ Event(t)
    /\ UNCHANGED <<copen, crun>>
    /\ UNCHANGED notConc

\* __exit__ commits and closes the session
CExit(t) ==
    /\ crun = t /\ Cur(t) = "X"
    /\ copen' = [copen EXCEPT ![t] = @ - 1]
    /\ Moves(t, cthr[t].pc + 1) /\ Event(t)
    /\ UNCHANGED crun
    /\ UNCHANGED notConc

\* zone.boot, zone.halt, zone.apply, ...
CVerb(t) ==
    /\ crun = t /\ Cur(t) = "V"
    /\ Moves(t, cthr[t].pc + 1) /\ Event(t)
    /\ UNCHANGED <<copen, crun>>
    /\ UNCHANGED notConc

\* greenthread.sleep: the thread gives up the processor
CYield(t) ==
    /\ crun = t /\ Cur(t) = "Y"
    /\ Moves(t, cthr[t].pc + 1) /\ Event(t)
    /\ crun' = "none"
    /\ UNCHANGED copen
    /\ UNCHANGED notConc

\* A backend call raises: __exit__ closes the session the thread is in, if
\* any; the exception is handled after the with block (an except or finally
\* clause) or ends the operation.
CFail(t) ==
    /\ crun = t /\ Cur(t) \in {"E", "m", "X", "V"}
    /\ copen' = [copen EXCEPT ![t] = 0]
    /\ \E pc \in {IF Cur(t) = "V" THEN cthr[t].pc + 1
                  ELSE AfterBlock(Evs(t), cthr[t].pc),
                  Len(Evs(t)) + 1} : Moves(t, pc)
    /\ clast' = [thr |-> t, ev |-> "raise", open |-> copen[t]]
    /\ UNCHANGED crun
    /\ UNCHANGED notConc

\* The operation returns (or raises) to its caller.
CEnd(t) ==
    /\ crun = t /\ AtEnd(t)
    /\ cthr' = [cthr EXCEPT ![t] = [op |-> "none", pc |-> 1]]
    /\ crun' = "none"
    /\ UNCHANGED <<copen, clast>>
    /\ UNCHANGED notConc

ConcNext ==
    \E t \in Threads :
        \/ CStart(t) \/ CResume(t) \/ CEnter(t) \/ CSkip(t) \/ CMut(t)
        \/ CExit(t) \/ CVerb(t) \/ CYield(t) \/ CFail(t) \/ CEnd(t)

------------------------------------------------------------------------------
(* Resolving a connection descriptor: _suri_from_volume_info                *)

MaxPorts == 2
MaxWwns == 2

\* One entry of `fcinfo hba-port`: the port's mode and state, and whether
\* further lines follow its Node WWN line.
PortEntries == [mode : {"Initiator", "Target"}, state : {"online", "offline"},
                tail : BOOLEAN]
RECURSIVE SeqsUpTo(_, _)
SeqsUpTo(S, n) ==
    IF n = 0 THEN {<<>>}
    ELSE LET shorter == SeqsUpTo(S, n - 1)
         IN  shorter \cup {Append(q, x) : q \in {r \in shorter : Len(r) = n - 1},
                                           x \in S}

\* The lines fcinfo prints for an entry, by what the parser takes them for.
EntryLines(e) ==
    << [k |-> "HBA Port WWN:", v |-> "wwpn"],
       [k |-> "Port Mode:", v |-> e.mode],
       [k |-> "other", v |-> ""],
       [k |-> "State:", v |-> e.state],
       [k |-> "other", v |-> ""],
       [k |-> "Node WWN:", v |-> "wwnn"] >>
    \o (IF e.tail THEN << [k |-> "other", v |-> ""] >> ELSE <<>>)
RECURSIVE FcinfoLines(_)
FcinfoLines(ports) ==
    IF ports = <<>> THEN <<>>
    ELSE EntryLines(Head(ports)) \o FcinfoLines(Tail(ports))

\* hba = {} and the number of keys it holds
NoHba == [port_name |-> "", port_state |-> "", node_name |-> ""]
HbaLen(h) == (IF h.port_name # "" THEN 1 ELSE 0) + (IF h.port_state # "" THEN 1 ELSE 0)
             + (IF h.node_name # "" THEN 1 ELSE 0)

\* The loop of _get_fc_hbas over the lines of the output.
RECURSIVE ParseHbas(_, _, _)
ParseHbas(lines, hbas, hba) ==
    IF lines = <<>> THEN hbas
    ELSE LET l == Head(lines)
             rest == Tail(lines)
             collect == HbaLen(hba) = 3
         IN  CASE l.k = "HBA Port WWN:" ->
                    ParseHbas(rest, hbas, [NoHba EXCEPT !.port_name = l.v])
               [] l.k = "State:" ->
                    ParseHbas(rest, hbas, [hba EXCEPT !.port_state = l.v])
               [] l.k = "Node WWN:" ->
                    ParseHbas(rest, hbas, [hba EXCEPT !.node_name = l.v])
               [] l.k = "Port Mode:" /\ l.v # "Initiator" -> hbas
               [] OTHER ->
                    IF collect THEN ParseHbas(rest, Append(hbas, hba), NoHba)
                    ELSE ParseHbas(rest, hbas, hba)

\* _get_fc_hbas: the cached list if there is one, else the parsed output of
\* fcinfo hba-port ([] when the command fails).
get_fc_hbas(cache, canExec, ports) ==
    IF cache # <<>> THEN cache
    ELSE IF ~canExec THEN <<>>
    ELSE ParseHbas(FcinfoLines(ports), <<>>, NoHba)

\* _get_fc_wwpns: the online ones of the hbas
get_fc_wwpns(hbas) == SelectSeq(hbas, LAMBDA h : h.port_state = "online")

DriverTypes == {"fibre_channel", "local", "unknown"}
NoConn == [driver_volume_type |-> "none", nwwn |-> 0]
Conns == [driver_volume_type : DriverTypes, nwwn : 1..MaxWwns]

FCInit ==
    /\ fports \in SeqsUpTo(PortEntries, MaxPorts)
    /\ fexec \in BOOLEAN
    /\ fcache = <<>>
    /\ fconn = NoConn
    /\ fpc = "idle"
    /\ fhbas = <<>>
    /\ fround = 0
    /\ ftodo = 0
    /\ flog = <<>>
    /\ fres = "none"

FCDone(res) == fres' = res /\ fpc' = "done"

\* _suri_from_volume_info(connection_info): the driver type
FCCall ==
    /\ fpc = "idle"
    /\ \E c \in Conns : fconn' = c
    /\ fpc' = "type"
    /\ fhbas' = <<>> /\ fround' = 0 /\ ftodo' = 0 /\ flog' = <<>> /\ fres' = "none"
    /\ UNCHANGED <<fports, fexec, fcache>>
    /\ UNCHANGED notFC

FCType ==
    /\ fpc = "type"
    /\ CASE fconn.driver_volume_type = "unknown" -> FCDone("VolumeDriverNotFound")
         [] fconn.driver_volume_type = "local" -> FCDone("suri")
         [] OTHER -> fpc' = "hbas" /\ UNCHANGED fres
    /\ UNCHANGED <<fports, fexec, fcache, fconn, fhbas, fround, ftodo, flog>>
    /\ UNCHANGED notFC

\* hbas = self._get_fc_hbas(); if not hbas: raise InvalidVolume
FCGetHbas ==
    /\ fpc = "hbas"
    /\ LET hbas == get_fc_hbas(fcache, fexec, fports)
       IN  /\ fhbas' = hbas
           /\ fcache' = IF fcache # <<>> \/ ~fexec THEN fcache ELSE hbas
           /\ flog' = IF fcache # <<>> THEN flog ELSE Append(flog, <<"fcinfo hba-port", 0, "ok">>)
           /\ IF hbas = <<>> THEN FCDone("InvalidVolume: no initiator found")
              ELSE fpc' = "refresh" /\ UNCHANGED fres
    /\ UNCHANGED <<fports, fexec, fconn, fround, ftodo>>
    /\ UNCHANGED notFC

\* fcinfo remote-port on every online local port; a failure of the command
\* is not caught
FCRefresh ==
    /\ fpc = "refresh"
    /\ \E ok \in BOOLEAN :
         LET n == Len(get_fc_wwpns(fhbas))
         IN  IF n = 0
             THEN /\ ok /\ flog' = flog
                  /\ fpc' = "lookup" /\ fround' = 1 /\ ftodo' = fconn.nwwn
                  /\ UNCHANGED fres
             ELSE /\ flog' = flog \o [k \in 1..(IF ok THEN n ELSE 1) |->
                                    <<"fcinfo remote-port", k, IF ok THEN "ok" ELSE "error">>]
                  /\ IF ok THEN fpc' = "lookup" /\ fround' = 1 /\ ftodo' = fconn.nwwn
                                /\ UNCHANGED fres
                     ELSE FCDone("ProcessExecutionError") /\ UNCHANGED <<fround, ftodo>>
    /\ UNCHANGED <<fports, fexec, fcache, fconn, fhbas>>
    /\ UNCHANGED notFC

\* for _none in range(3)
lookup_rounds == 3
\* A delay that grows with the round.
sleep_delay_backoff(round) == 2 * round
\* greenthread.sleep(2)
sleep_delay(round) == 2

\* _lookup_fc_volume_suri: one suriadm lookup-uri for one target WWN; the
\* command prints a logical-unit URI, prints none, or fails
FCLookup ==
    /\ fpc = "lookup" /\ ftodo > 0
    /\ \E out \in {"found", "nothing", "error"} :
         /\ flog' = Append(flog, <<"suriadm lookup-uri", fround, out>>)
         /\ IF out = "found" THEN FCDone("suri") /\ UNCHANGED <<fround, ftodo>>
            ELSE ftodo' = ftodo - 1 /\ UNCHANGED <<fpc, fres, fround>>
    /\ UNCHANGED <<fports, fexec, fcache, fconn, fhbas>>
    /\ UNCHANGED notFC

\* greenthread.sleep(2) after a round; after the third, InvalidVolume
FCSleep ==
    /\ fpc = "lookup" /\ ftodo = 0
    /\ flog' = Append(flog, <<"sleep", sleep_delay(fround), "ok">>)
    /\ IF fround < lookup_rounds
       THEN fround' = fround + 1 /\ ftodo' = fconn.nwwn /\ UNCHANGED <<fpc, fres>>
       ELSE FCDone("InvalidVolume: unable to lookup URI") /\ UNCHANGED <<fround, ftodo>>
    /\ UNCHANGED <<fports, fexec, fcache, fconn, fhbas>>
    /\ UNCHANGED notFC

FCReturn ==
    /\ fpc = "done"
    /\ fpc' = "idle"
    /\ UNCHANGED <<fports, fexec, fcache, fconn, fhbas, fround, ftodo, flog, fres>>
    /\ UNCHANGED notFC

FCNext == FCCall \/ FCType \/ FCGetHbas \/ FCRefresh \/ FCLookup \/ FCSleep \/ FCReturn

------------------------------------------------------------------------------
(* Resize and migration: migrate_disk_and_power_off                         *)

BrandSpecs == {"unset", "solaris", "solaris-kz"}
RootSizes == {10, 20}
NoVols == [old |-> "attached", new |-> "none"]
NoFail == <<"none", "none">>
\* The zone of the instance before a resize, and no zone at all.
OldZone == [exists |-> TRUE, caps |-> "old", boot |-> "old"]
NoMZone == [exists |-> FALSE, caps |-> "none", boot |-> "none"]
NoArg == [samehost |-> TRUE, brand |-> "unset", new_brand |-> "unset",
          root_gb |-> 10, new_root_gb |-> 10, root_found |-> TRUE,
          disk_info |-> FALSE, power_on |-> FALSE]
MigrateArgs == [samehost : BOOLEAN, brand : BrandSpecs, new_brand : BrandSpecs,
                root_gb : RootSizes, new_root_gb : RootSizes,
                root_found : BOOLEAN, disk_info : {FALSE}, power_on : {FALSE}]
\* a migration to another host always comes with the new disk
FinishArgs == {a \in [samehost : BOOLEAN, brand : BrandSpecs, new_brand : {"unset"},
                      root_gb : {10}, new_root_gb : {10}, root_found : {TRUE},
                      disk_info : BOOLEAN, power_on : BOOLEAN] :
                 ~a.samehost => a.disk_info}

\* extra_specs.get('zonecfg:brand', ZONE_BRAND_SOLARIS)
get_brand_default(b) == IF b = "unset" THEN ZONE_BRAND_SOLARIS ELSE b
\* flavor['extra_specs'].get('zonecfg:brand')
get_brand(b) == IF b = "unset" THEN "None" ELSE b

\* Checks that let a smaller root disk through.
migrate_precheck_any_size(a) ==
    LET brand == get_brand_default(a.brand)
    IN  IF brand # ZONE_BRAND_SOLARIS_KZ /\ ~a.samehost
        THEN "MigrationPreCheckError: resize to a different host"
        ELSE IF brand # get_brand(a.new_brand)
        THEN "MigrationPreCheckError: change of brand"
        ELSE "none"

\* The checks of migrate_disk_and_power_off before it powers the instance
\* off: the error it raises, or "none".
migrate_precheck(a) ==
    LET brand == get_brand_default(a.brand)
    IN  IF brand # ZONE_BRAND_SOLARIS_KZ /\ ~a.samehost
        THEN "MigrationPreCheckError: resize to a different host"
        ELSE IF brand # get_brand(a.new_brand)
        THEN "MigrationPreCheckError: change of brand"
        ELSE IF a.root_gb > a.new_root_gb THEN "ResizeError: smaller boot volume"
        ELSE "none"

MigInit ==
    /\ marg = NoArg
    /\ mop = "none"
    /\ mpc = "idle"
    /\ mvol = NoVols
    /\ mpow \in {"on", "off"}
    /\ mlog = <<>>
    /\ merr = NoFail
    /\ mwas = NoVols
    /\ mres = "none"
    /\ mzone = OldZone

MLog(what, out) == mlog' = Append(mlog, <<what, out>>)
MRaise(err) == mres' = err /\ mpc' = "done"
MGoto(pc) == mpc' = pc /\ UNCHANGED mres
MKeep == UNCHANGED <<marg, mop, merr, mwas, mzone>> /\ UNCHANGED notMig

MigrateCall ==
    /\ mpc = "idle"
    /\ \E a \in MigrateArgs : marg' = a
    /\ mop' = "migrate_disk_and_power_off"
    /\ mpc' = "md_check"
    /\ mvol' = NoVols
    /\ mlog' = <<>> /\ merr' = NoFail /\ mwas' = NoVols /\ mres' = "none"
    /\ mzone' = OldZone
    /\ UNCHANGED mpow
    /\ UNCHANGED notMig

MdCheck ==
    /\ mpc = "md_check"
    /\ IF migrate_precheck(marg) # "none" THEN MRaise(migrate_precheck(marg))
       ELSE MGoto("md_poweroff")
    /\ UNCHANGED <<mvol, mpow, mlog>>
    /\ MKeep

\* self.power_off(instance, timeout, retry_interval)
MdPowerOff ==
    /\ mpc = "md_poweroff"
    /\ \E out \in {"ok", "fail"} :
         /\ MLog("power_off", out)
         /\ IF out = "ok" THEN mpow' = "off" /\ MGoto("md_disk")
            ELSE UNCHANGED mpow /\ MRaise("InstancePowerOffFailure")
    /\ UNCHANGED mvol
    /\ MKeep

\* the root device of the instance, if a new volume is needed
MdDisk ==
    /\ mpc = "md_disk"
    /\ IF ~(marg.new_root_gb > marg.root_gb \/ ~marg.samehost) THEN MRaise("ok")
       ELSE IF marg.root_found THEN MGoto("md_create")
       ELSE IF marg.samehost /\ get_brand_default(marg.brand) = ZONE_BRAND_SOLARIS
       THEN MRaise("ok")
       ELSE MRaise("ResizeError: no root device")
    /\ UNCHANGED <<mvol, mpow, mlog>>
    /\ MKeep

\* self._volume_api.create(..., source_volume=vinfo), and the wait for it
MdCreate ==
    /\ mpc = "md_create"
    /\ \E out \in {"ok", "fail"} :
         /\ MLog("volume_create", out)
         /\ IF out = "ok" THEN mvol' = [mvol EXCEPT !.new = "available"]
                               /\ MGoto("md_extend")
            ELSE UNCHANGED mvol /\ MRaise("VolumeError")
    /\ UNCHANGED mpow
    /\ MKeep

\* self._volume_api.extend; on failure _cleanup_migrate_disk and raise
MdExtend ==
    /\ mpc = "md_extend"
    /\ IF marg.new_root_gb > marg.root_gb
       THEN \E out \in {"ok", "fail"}, del \in {"ok", "fail"} :
              /\ out = "ok" => del = "ok"
              /\ IF out = "ok" THEN MLog("volume_extend", out) /\ UNCHANGED mvol
                                    /\ MRaise("ok")
                 ELSE /\ mlog' = mlog \o << <<"volume_extend", out>>,
                                            <<"volume_delete_new", del>> >>
                      /\ mvol' = [mvol EXCEPT !.new = IF del = "ok" THEN "deleted"
                                                      ELSE @]
                      /\ MRaise("VolumeError")
       ELSE UNCHANGED <<mvol, mlog>> /\ MRaise("ok")
    /\ UNCHANGED mpow
    /\ MKeep

\* The operation has returned or raised.
MReturn ==
    /\ mpc = "done"
    /\ mpc' = "idle"
    /\ UNCHANGED <<marg, mop, mvol, mpow, mlog, merr, mwas, mres, mzone>>
    /\ UNCHANGED notMig

------------------------------------------------------------------------------
(* Resize and migration: finish_migration                                   *)

\* The calls of a sequence that were made when it failed at call bad (all of
\* them when bad is "none"), with their outcomes.
RECURSIVE Made(_, _)
Made(steps, bad) ==
    IF steps = <<>> THEN <<>>
    ELSE IF Head(steps) = bad THEN << <<bad, "fail">> >>
    ELSE << <<Head(steps), "ok">> >> \o Made(Tail(steps), bad)
Passed(steps, bad, step) == <<step, "ok">> \in {Made(steps, bad)[k] : k \in 1..Len(Made(steps, bad))}
Elems(q) == {q[k] : k \in 1..Len(q)}

\* _resize_disk_migration: the calls it makes, in order
resize_disk_migration_steps(samehost) ==
    <<"initialize_connection">>
      \o (IF samehost THEN <<"set_boot_device">> ELSE <<>>)
      \o <<"volume_detach_old", "volume_attach_new", "bdm_save">>

\* _cleanup_finish_migration does not catch the errors of its calls.
cleanup_error(bad) == IF bad = "none" THEN "none" ELSE "CleanupError"

FinishCall ==
    /\ mpc = "idle"
    /\ \E a \in FinishArgs :
         /\ marg' = a
         /\ mvol' = [old |-> "attached",
                     new |-> IF a.disk_info THEN "available" ELSE "none"]
         /\ mzone' = IF a.samehost THEN OldZone ELSE NoMZone
    /\ mop' = "finish_migration"
    /\ mpc' = "fm_config"
    /\ mlog' = <<>> /\ merr' = NoFail /\ mwas' = NoVols /\ mres' = "none"
    /\ UNCHANGED mpow
    /\ UNCHANGED notMig

\* except Exception: the cleanup starts
Except(step, err, vols) ==
    /\ merr' = <<step, err>>
    /\ mwas' = vols
    /\ mpc' = "fc_new"
    /\ UNCHANGED mres
FmKeep == UNCHANGED <<marg, mop>> /\ UNCHANGED notMig
FmNext(pc) == MGoto(pc) /\ UNCHANGED <<merr, mwas>>

\* if samehost: _set_num_cpu, _set_memory_cap, each in its own session
FmConfig ==
    /\ mpc = "fm_config"
    /\ IF ~marg.samehost THEN UNCHANGED <<mlog, mzone>> /\ FmNext("fm_switch")
       ELSE LET steps == <<"set_num_cpu", "set_memory_cap">>
            IN  \E bad \in Elems(steps) \cup {"none"} :
                  /\ mlog' = mlog \o Made(steps, bad)
                  /\ mzone' = [mzone EXCEPT !.caps =
                                  IF Passed(steps, bad, "set_memory_cap") THEN "new"
                                  ELSE IF Passed(steps, bad, "set_num_cpu") THEN "new cpu"
                                  ELSE @]
                  /\ IF bad = "none" THEN FmNext("fm_switch")
                     ELSE Except("config", "BackendError", mvol)
    /\ UNCHANGED <<mvol, mpow>>
    /\ FmKeep

\* _resize_disk_migration: the root volume is switched over
FmSwitch ==
    /\ mpc = "fm_switch"
    /\ IF ~marg.disk_info
       THEN UNCHANGED <<mvol, mlog, mzone>> /\ FmNext("fm_create")
       ELSE LET steps == resize_disk_migration_steps(marg.samehost)
            IN  \E bad \in Elems(steps) \cup {"none"} :
                  LET vols == [old |-> IF Passed(steps, bad, "volume_detach_old")
                                       THEN "detached" ELSE mvol.old,
                               new |-> IF Passed(steps, bad, "volume_attach_new")
                                       THEN "attached" ELSE mvol.new]
                  IN  /\ mlog' = mlog \o Made(steps, bad)
                      /\ mvol' = vols
                      /\ mzone' = [mzone EXCEPT !.boot =
                                      IF Passed(steps, bad, "set_boot_device") THEN "new"
                                      ELSE @]
                      /\ IF bad = "none" THEN FmNext("fm_create")
                         ELSE Except("switch", "VolumeError", vols)
    /\ UNCHANGED mpow
    /\ FmKeep

\* block_device_info.get('block_device_mapping') in _create_config, by what
\* the caller passes as block_device_info: the mappings, or None for the
\* connection_info of a volume, which has no such key
block_device_mapping(passed) ==
    IF passed = "block_device_info" THEN "mappings" ELSE None
\* for entry in block_device_info.get('block_device_mapping')
create_config_error(passed) ==
    IF block_device_mapping(passed) = None THEN "TypeError" ELSE "none"
\* _create_config up to that loop, and from it on
create_config_steps == <<"zone_create", "set_global_properties">>
create_config_rest == <<"set_boot_device", "set_caps", "set_network">>

\* on another host: _create_config(context, instance, network_info,
\* connection_info, None), zone.attach, attach_volume of the others
FmCreate ==
    /\ mpc = "fm_create"
    /\ IF marg.samehost THEN UNCHANGED <<mlog, mzone>> /\ FmNext("fm_power")
       ELSE LET e == create_config_error("connection_info")
                steps == create_config_steps
                         \o (IF e = "none"
                             THEN create_config_rest \o <<"zone_attach", "attach_volumes">>
                             ELSE <<>>)
            IN  \E bad \in Elems(steps) \cup {"none"} :
                  /\ mlog' = mlog \o Made(steps, bad)
                              \o (IF bad = "none" /\ e # "none"
                                  THEN << <<"create_config", e>> >> ELSE <<>>)
                  /\ mzone' = IF ~Passed(steps, bad, "zone_create") THEN mzone
                               ELSE [exists |-> TRUE,
                                     caps |-> IF Passed(steps, bad, "set_caps")
                                              THEN "new" ELSE "none",
                                     boot |-> IF Passed(steps, bad, "set_boot_device")
                                              THEN "new" ELSE "none"]
                  /\ IF bad # "none" THEN Except("create", "BackendError", mvol)
                     ELSE IF e # "none" THEN Except("create", e, mvol)
                     ELSE FmNext("fm_power")
    /\ UNCHANGED <<mvol, mpow>>
    /\ FmKeep

\* if power_on: self._power_on(instance, network_info)
FmPower ==
    /\ mpc = "fm_power"
    /\ IF ~marg.power_on
       THEN UNCHANGED <<mlog, mpow, merr, mwas>> /\ MRaise("ok")
       ELSE \E out \in {"ok", "fail"} :
              /\ MLog("power_on", out)
              /\ IF out # "ok"
                 THEN UNCHANGED mpow /\ Except("power_on", "InstancePowerOnFailure", mvol)
                 ELSE /\ mpow' = "on"
                      /\ UNCHANGED <<merr, mwas>>
                      /\ IF get_brand_default(marg.brand) = ZONE_BRAND_SOLARIS
                         THEN MRaise("ok") ELSE MGoto("fm_toggle")
    /\ UNCHANGED <<mvol, mzone>>
    /\ FmKeep

\* greenthread.sleep(15); zlogin ... zpool set autoexpand=off / on
FmToggle ==
    /\ mpc = "fm_toggle"
    /\ \E out \in {"ok", "fail"} :
         /\ MLog("autoexpand", out)
         /\ IF out = "ok" THEN UNCHANGED <<merr, mwas>> /\ MRaise("ok")
            ELSE Except("autoexpand", "ProcessExecutionError", mvol)
    /\ UNCHANGED <<mvol, mpow, mzone>>
    /\ FmKeep

\* _cleanup_finish_migration: a call of the cleanup ended the cleanup
CleanupEnds(bad, next) ==
    IF cleanup_error(bad) # "none" THEN MRaise(cleanup_error(bad))
    ELSE MGoto(next)

\* if disk_info: detach and delete the new volume
FcNew ==
    /\ mpc = "fc_new"
    /\ IF ~marg.disk_info THEN UNCHANGED <<mvol, mlog>> /\ MGoto("fc_destroy")
       ELSE LET steps == <<"volume_detach_new", "volume_delete_new">>
            IN  \E bad \in Elems(steps) \cup {"none"} :
                  /\ mlog' = mlog \o Made(steps, bad)
                  /\ mvol' = [mvol EXCEPT !.new =
                                IF Passed(steps, bad, "volume_delete_new") THEN "deleted"
                                ELSE IF Passed(steps, bad, "volume_detach_new")
                                THEN "available" ELSE @]
                  /\ CleanupEnds(bad, "fc_old")
    /\ UNCHANGED <<mpow, merr, mwas, mzone>>
    /\ FmKeep

\* if old_rvid: attach the original root volume again
FcOld ==
    /\ mpc = "fc_old"
    /\ LET steps == <<"initialize_connection_old", "volume_attach_old", "bdm_restore">>
       IN  \E bad \in Elems(steps) \cup {"none"} :
             /\ mlog' = mlog \o Made(steps, bad)
             /\ mvol' = [mvol EXCEPT !.old =
                           IF Passed(steps, bad, "volume_attach_old") THEN "attached"
                           ELSE @]
             /\ CleanupEnds(bad, "fc_destroy")
    /\ UNCHANGED <<mpow, merr, mwas, mzone>>
    /\ FmKeep

\* if not samehost: self.destroy(...), which can return with the zone still
\* there; then the handler re-raises
FcDestroy ==
    /\ mpc = "fc_destroy"
    /\ IF marg.samehost THEN UNCHANGED <<mlog, mzone>> /\ MRaise(merr[2])
       ELSE \E out \in {"ok", "fail"}, gone \in BOOLEAN :
              /\ out = "fail" => ~gone
              /\ MLog("destroy", out)
              /\ mzone' = IF gone THEN NoMZone ELSE mzone
              /\ IF cleanup_error(IF out = "ok" THEN "none" ELSE "destroy") # "none"
                 THEN MRaise("CleanupError") ELSE MRaise(merr[2])
    /\ UNCHANGED <<mvol, mpow, merr, mwas>>
    /\ FmKeep

MigNext ==
    \/ MigrateCall \/ MdCheck \/ MdPowerOff \/ MdDisk \/ MdCreate \/ MdExtend
    \/ FinishCall \/ FmConfig \/ FmSwitch \/ FmCreate \/ FmPower \/ FmToggle
    \/ FcNew \/ FcOld \/ FcDestroy
    \/ MReturn

------------------------------------------------------------------------------
(* CPU time statistics: _get_cpu_time                                       *)

MaxCpus == 2

\* What a read of the accumulator kstat gives: None, or its generation
\* number and the carried user and kernel times.
NoAccum == [ok |-> FALSE, gen_num |-> 0, cpu_nsec_user |-> 0, cpu_nsec_kernel |-> 0]
Accums == [ok : {TRUE}, gen_num : {1, 2}, cpu_nsec_user : {0, 10},
           cpu_nsec_kernel : {0, 20}]
\* What a read of one CPU's kstats gives: the current kernel and user times
CpuValues == [cpu_nsec_kernel_cur : {1, 2}, cpu_nsec_user_cur : {0, 4}]

RECURSIVE SumSeq(_)
SumSeq(q) == IF q = <<>> THEN 0 ELSE Head(q) + SumSeq(Tail(q))

\* _sum_kstat_statistic over the kstats of one CPU, for both statistics
sum_kstat_statistics(cpu) == cpu.cpu_nsec_kernel_cur + cpu.cpu_nsec_user_cur

\* A retry loop that carries the total over to the next attempt.
attempt_total_kept(total) == total

\* for _attempt in range(3): total = 0
attempt_total(total) == 0

\* A loop that retries whatever the state of the zone.
after_failed_read_retry(running) == "continue"

\* After a failed read of the CPU list or of one CPU: give up if the zone is
\* no longer running, else try again.
after_failed_read(running) == IF ~running THEN "stop" ELSE "continue"

NoStop == [at |-> "none", attempt |-> 0, n |-> 0]
NoRes == [kind |-> "none", val |-> 0]
Value(v) == [kind |-> "value", val |-> v]

StatInit ==
    /\ kpc = "idle"
    /\ kattempt = 0
    /\ ktotal = 0
    /\ kinit = NoAccum
    /\ kfinal = NoAccum
    /\ ktodo = 0
    /\ kreads = <<>>
    /\ kn = 0
    /\ kstop = NoStop
    /\ kres = NoRes

KDone(res) == kres' = res /\ kpc' = "done"
\* continue: the next attempt, if any
KContinue == kattempt' = kattempt + 1 /\ kpc' = "attempt" /\ UNCHANGED kres
\* zone.state as the check after a failed read finds it
KSeen(where, running) ==
    kstop' = IF running THEN kstop
             ELSE [at |-> where, attempt |-> kattempt, n |-> kn']

\* if zone.name is None or zone.state != ZONE_STATE_RUNNING: return 0
KCall ==
    /\ kpc = "idle"
    /\ \E running \in BOOLEAN :
         IF running
         THEN kpc' = "attempt" /\ kattempt' = 1 /\ kres' = NoRes /\ kstop' = NoStop
         ELSE /\ kpc' = "done" /\ kattempt' = 0 /\ kres' = Value(0)
              /\ kstop' = [at |-> "entry", attempt |-> 0, n |-> 0]
    /\ ktotal' = 0 /\ kinit' = NoAccum /\ kfinal' = NoAccum /\ ktodo' = 0
    /\ kreads' = <<>> /\ kn' = 0
    /\ UNCHANGED notStat

\* total = 0; initial = self._kstat_data(accum_uri)
KAttempt ==
    /\ kpc = "attempt" /\ kattempt <= 3
    /\ ktotal' = attempt_total(ktotal)
    /\ kreads' = <<>>
    /\ \E a \in Accums \cup {NoAccum} : kinit' = a
    /\ kn' = kn + 1
    /\ kfinal' = NoAccum
    /\ kpc' = "cpus"
    /\ UNCHANGED <<kattempt, ktodo, kstop, kres>>
    /\ UNCHANGED notStat

\* the loop ends without a result: LOG.error, return 0
KExhausted ==
    /\ kpc = "attempt" /\ kattempt > 3
    /\ KDone(Value(0))
    /\ UNCHANGED <<kattempt, ktotal, kinit, kfinal, ktodo, kreads, kn, kstop>>
    /\ UNCHANGED notStat

\* cpus = self._kstat_data(uri)
KCpus ==
    /\ kpc = "cpus"
    /\ kn' = kn + 1
    /\ \E n \in 0..MaxCpus, running \in BOOLEAN :
         IF n > 0
         THEN /\ running /\ ktodo' = n /\ kpc' = "cpu"
              /\ UNCHANGED <<kattempt, kstop, kres>>
         ELSE /\ UNCHANGED ktodo
              /\ KSeen("cpus", running)
              /\ IF after_failed_read(running) = "stop"
                 THEN KDone(Value(0)) /\ UNCHANGED kattempt
                 ELSE KContinue
    /\ UNCHANGED <<ktotal, kinit, kfinal, kreads>>
    /\ UNCHANGED notStat

\* cpu = self._kstat_data(uri + "/%s" % n); total += the two statistics
KCpu ==
    /\ kpc = "cpu" /\ ktodo > 0
    /\ kn' = kn + 1
    /\ \E ok \in BOOLEAN, cpu \in CpuValues, running \in BOOLEAN :
         IF ok
         THEN /\ running
              /\ ktotal' = ktotal + sum_kstat_statistics(cpu)
              /\ kreads' = Append(kreads, sum_kstat_statistics(cpu))
              /\ ktodo' = ktodo - 1
              /\ kpc' = IF ktodo = 1 THEN "final" ELSE "cpu"
              /\ UNCHANGED <<kattempt, kstop, kres>>
         ELSE /\ cpu = CHOOSE c \in CpuValues : TRUE
              /\ UNCHANGED <<ktotal, kreads, ktodo>>
              /\ KSeen("cpu", running)
              /\ IF after_failed_read(running) = "stop"
                 THEN KDone(Value(0)) /\ UNCHANGED kattempt
                 ELSE KContinue
    /\ UNCHANGED <<kinit, kfinal>>
    /\ UNCHANGED notStat

\* final = self._kstat_data(accum_uri); the generation numbers are compared
KFinal ==
    /\ kpc = "final"
    /\ kn' = kn + 1
    /\ \E f \in Accums \cup {NoAccum} :
         /\ kfinal' = f
         /\ IF ~f.ok THEN KContinue /\ UNCHANGED ktotal
            ELSE IF ~kinit.ok
            THEN KDone([kind |-> "raise", val |-> 0]) /\ UNCHANGED <<kattempt, ktotal>>
            ELSE IF kinit.gen_num = f.gen_num
            THEN /\ ktotal' = ktotal + kinit.cpu_nsec_user + kinit.cpu_nsec_kernel
                 /\ KDone(Value(ktotal')) /\ UNCHANGED kattempt
            ELSE KContinue /\ UNCHANGED ktotal
    /\ UNCHANGED <<kinit, ktodo, kreads, kstop>>
    /\ UNCHANGED notStat

KReturn ==
    /\ kpc = "done"
    /\ kpc' = "idle"
    /\ UNCHANGED <<kattempt, ktotal, kinit, kfinal, ktodo, kreads, kn, kstop, kres>>
    /\ UNCHANGED notStat

StatNext == KCall \/ KAttempt \/ KExhausted \/ KCpus \/ KCpu \/ KFinal \/ KReturn

------------------------------------------------------------------------------
(* Power, suspend and live-migration operations on one zone                 *)

Bootargs == {"-v", "-s"}
SuspendPaths == {"old", "new"}      \* "new": CONF.zones_suspend_path/%{zonename}
\* instance.metadata: each key is absent (None) or carries a string
NoMeta == [bootargs |-> None, bootargs_persist |-> None]
Metas == [bootargs : Bootargs \cup {None},
          bootargs_persist : {None, "False", "FALSE", "True"}]
NoOZone == [exists |-> FALSE, brand |-> ZONE_BRAND_SOLARIS, state |-> NoZone,
            bootargs |-> None, suspend |-> None]
\* The zones the operations can meet; bootargs holds what the backend reports.
OZones(unset) ==
    {NoOZone} \cup [exists : {TRUE}, brand : {ZONE_BRAND_SOLARIS, ZONE_BRAND_SOLARIS_KZ},
                    state : {"installed", "running"},
                    bootargs : {unset, "-v"},
                    suspend : SuspendPaths \cup {None}]
Archs == {"x86", "sparc"}
NoOArg == [halt_type |-> None, src_arch |-> None, dst_arch |-> None,
           brand |-> "unset", block_migration |-> FALSE,
           disk_over_commit |-> FALSE, local_volume |-> FALSE]
NoLoc == [cur_bootargs |-> None, meta_bootargs |-> None, persistent |-> "False",
          reset_bootargs |-> FALSE]

\* str.lower()
Lower(str) ==
    CASE str \in {"False", "FALSE"} -> "false"
      [] str = "True" -> "true"
      [] OTHER -> str

\* The name under which an error of a configuration session reaches the caller.
ErrName(e) ==
    IF e = NoErr THEN "none"
    ELSE IF e[2] = "AttributeError" THEN "AttributeError"
    ELSE "BackendError"

\* The configuration of the model's two resources with v as the value of the
\* one property of 'global', and the value of that property in a configuration.
GlobalCfg(v) ==
    [r \in Res |-> IF r = "global" THEN [has |-> TRUE, val |-> [p \in Props |-> v]]
                   ELSE Absent]
GlobalVal(cfg) == cfg["global"].val["prop"]

\* with ZoneConfig(zone) as zc: <one primitive>, from __enter__ to __exit__.
\* body is what the primitive yields on the working copy of cfg.
zcSession(cfg, body, eout, cout, xout) ==
    LET e == zcEnter(eout)
    IN  IF e.err # NoErr THEN [cfg |-> cfg, calls |-> e.calls, err |-> e.err]
        ELSE LET x == zcExit(body.err, TRUE, cout, xout)
             IN  [cfg   |-> IF Succeeded(x.calls, "commitConfig") THEN body.cfg
                            ELSE cfg,
                  calls |-> e.calls \o body.calls \o x.calls,
                  err   |-> x.err]
\* One answer for each call the session makes, "ok" for those it does not make.
SessionAnswers(bodyErr, eout, bout, cout, xout) ==
    /\ eout # "ok" => bout = "ok" /\ cout = "ok" /\ xout = "ok"
    /\ (eout = "ok" /\ bodyErr # NoErr) => cout = "ok"
    /\ (eout = "ok" /\ bodyErr = NoErr /\ cout = "ok") => xout = "ok"

OpInit ==
    /\ ounset \in {None, ""}
    /\ ozone \in OZones(ounset)
    /\ ometa \in Metas
    /\ oconf \in BOOLEAN
    /\ oop = "none"
    /\ opc = "idle"
    /\ oarg = NoOArg
    /\ oloc = NoLoc
    /\ olog = <<>>
    /\ oerr = "none"
    /\ ores = "none"
    /\ owas = [zone |-> ozone, meta |-> ometa]

\* A call of operation op with arguments a.
OCall(op, a) ==
    /\ opc = "idle"
    /\ oop' = op
    /\ oarg' = a
    /\ owas' = [zone |-> ozone, meta |-> ometa]
    /\ UNCHANGED <<oconf, ounset>>
    /\ UNCHANGED notOp
OStep(pc) == opc = pc /\ UNCHANGED <<oconf, ounset, oop, oarg, owas>> /\ UNCHANGED notOp
ORaise(err) == ores' = err /\ opc' = "done" /\ oerr' = "none"
OGoto(pc) == opc' = pc /\ UNCHANGED <<oerr, ores>>

------------------------------------------------------------------------------
(* _power_on *)

\* A finally clause that compares bootargs_persist with 'false' as it is.
finally_metadata_exact(meta, meta_bootargs, persistent) ==
    IF meta_bootargs # None /\ persistent = "false" THEN NoMeta ELSE meta

\* finally: metadata bootargs that are not persistent are consumed
finally_metadata(meta, meta_bootargs, persistent) ==
    IF meta_bootargs # None /\ Lower(persistent) = "false" THEN NoMeta ELSE meta

\* A restore that is skipped after a failed boot.
needs_restore_on_success(reset_bootargs, err) == reset_bootargs /\ err = "none"

\* finally: if reset_bootargs
needs_restore(reset_bootargs, err) == reset_bootargs

\* _power_on up to the try: the zone is looked up, the boot arguments are
\* taken from the metadata and the configured ones are cleared if they differ.
PoCall ==
    /\ OCall("power_on", NoOArg)
    /\ IF ~ozone.exists
       THEN /\ ORaise("InstanceNotFound")
            /\ UNCHANGED <<ozone, ometa, oloc>> /\ olog' = <<>>
       ELSE IF ~oconf
       THEN /\ opc' = "po_boot" /\ oerr' = "none" /\ ores' = "none"
            /\ oloc' = NoLoc /\ olog' = <<>>
            /\ UNCHANGED <<ozone, ometa>>
       ELSE \E lk \in LookupOutcomes, eout, bout, cout, xout \in CallOutcomes :
            LET look == lookup_resource_property(GlobalCfg(ozone.bootargs),
                                                 "global", "prop", lk)
                cur == look.val
                meta == ometa.bootargs
                persistent == IF meta = None \/ ometa.bootargs_persist = None
                              THEN "False" ELSE ometa.bootargs_persist
                clears == meta # None /\ cur # None /\ meta # cur
                body == clear_resource_props(GlobalCfg(ozone.bootargs),
                                             "global", "prop", bout)
                ses == zcSession(GlobalCfg(ozone.bootargs), body, eout, cout, xout)
                val == GlobalVal(ses.cfg)
            IN  /\ UNCHANGED ometa
                /\ IF look.err # NoErr
                   THEN /\ eout = "ok" /\ bout = "ok" /\ cout = "ok" /\ xout = "ok"
                        /\ ORaise(ErrName(look.err))
                        /\ UNCHANGED <<ozone, oloc>> /\ olog' = <<>>
                   ELSE IF ~clears
                   THEN /\ eout = "ok" /\ bout = "ok" /\ cout = "ok" /\ xout = "ok"
                        /\ opc' = "po_boot" /\ oerr' = "none" /\ ores' = "none"
                        /\ oloc' = [cur_bootargs |-> cur, meta_bootargs |-> meta,
                                    persistent |-> persistent,
                                    reset_bootargs |-> FALSE]
                        /\ UNCHANGED ozone /\ olog' = <<>>
                   ELSE /\ SessionAnswers(body.err, eout, bout, cout, xout)
                        /\ olog' = ses.calls
                        /\ ozone' = [ozone EXCEPT !.bootargs =
                                        IF val = None THEN ounset ELSE val]
                        /\ oloc' = [cur_bootargs |-> cur, meta_bootargs |-> meta,
                                    persistent |-> persistent,
                                    reset_bootargs |-> TRUE]
                        /\ IF ses.err # NoErr THEN ORaise(ErrName(ses.err))
                           ELSE opc' = "po_boot" /\ oerr' = "none" /\ ores' = "none"

\* try: zone.boot(bootargs); self._plug_vifs(...)
PoBoot ==
    /\ OStep("po_boot")
    /\ \E out \in VerbOutcomes("boot", ozone.state) :
         /\ ozone' = [ozone EXCEPT !.state = IF out = "ok" THEN Effect("boot", @) ELSE @]
         /\ oerr' = IF out = "ok" THEN "none" ELSE "InstancePowerOnFailure"
         /\ IF out = "ok"
            THEN olog' = olog \o << <<"boot", out>>, <<"plug_vifs", "ok">> >>
            ELSE olog' = Append(olog, <<"boot", out>>)
    /\ opc' = "po_finally"
    /\ UNCHANGED <<ometa, oloc, ores>>

\* finally: the metadata boot arguments are consumed, the configured ones
\* are restored
PoFinally ==
    /\ OStep("po_finally")
    /\ ometa' = IF oconf
                THEN finally_metadata(ometa, oloc.meta_bootargs, oloc.persistent)
                ELSE ometa
    /\ IF ~(oconf /\ needs_restore(oloc.reset_bootargs, oerr))
       THEN /\ ORaise(IF oerr = "none" THEN "ok" ELSE oerr)
            /\ UNCHANGED <<ozone, olog>>
       ELSE \E lk \in LookupOutcomes, eout, cout, xout \in CallOutcomes,
               bout \in Outcomes :
            LET cfg == GlobalCfg(ozone.bootargs)
                cur == lookup_resource_property(cfg, "global", "prop", lk).val
                body == setprop(cfg, "global", "prop", oloc.cur_bootargs, lk, bout)
                ses == zcSession(cfg, body, eout, cout, xout)
            IN  /\ SessionAnswers(body.err, eout, bout, cout, xout)
                /\ eout # "ok" => lk = "ok"
                /\ eout = "ok" =>
                     IF lk = "EXC" \/ cur = oloc.cur_bootargs THEN bout = "ok"
                     ELSE IF cur = None THEN AddFeasible(cfg, "global", bout)
                     ELSE SetFeasible(cfg, "global", bout)
                /\ olog' = olog \o ses.calls
                /\ ozone' = [ozone EXCEPT !.bootargs = GlobalVal(ses.cfg)]
                /\ ORaise(IF ses.err # NoErr THEN ErrName(ses.err)
                          ELSE IF oerr = "none" THEN "ok" ELSE oerr)
    /\ UNCHANGED oloc

------------------------------------------------------------------------------
(* _power_off *)

\* A handler that lets every failed shutdown or halt pass.
power_off_tolerated_always(zs) == TRUE

\* except: the error is ignored if the zone has reached the shut-down state
power_off_tolerated(zs) == get_state(zs) = "SHUTDOWN"

PfCall ==
    /\ \E ht \in {"SOFT", "HARD"} : OCall("power_off", [NoOArg EXCEPT !.halt_type = ht])
    /\ IF ~ozone.exists THEN ORaise("InstanceNotFound")
       ELSE opc' = "pf_halt" /\ oerr' = "none" /\ ores' = "none"
    /\ olog' = <<>> /\ oloc' = NoLoc
    /\ UNCHANGED <<ozone, ometa>>

\* try: _unplug_vifs; zone.shutdown() or zone.halt(); except: ...
PfHalt ==
    /\ OStep("pf_halt")
    /\ \E out \in VerbOutcomes("halt", ozone.state), zs2 \in ZONE_STATES :
         LET verb == IF oarg.halt_type = "SOFT" THEN "shutdown" ELSE "halt"
         IN  /\ zs2 \in IF out = "ok" THEN {Effect("halt", ozone.state)}
                        ELSE FailEffects("halt", ozone.state)
             /\ ozone' = [ozone EXCEPT !.state = zs2]
             /\ olog' = olog \o << <<"unplug_vifs", "ok">>, <<verb, out>> >>
             /\ ORaise(IF out = "ok" \/ power_off_tolerated(zs2) THEN "ok"
                       ELSE "InstancePowerOffFailure")
    /\ UNCHANGED <<ometa, oloc>>

------------------------------------------------------------------------------
(* suspend and resume *)

\* A driver that suspends and resumes zones of every brand.
supports_suspend_any(brand) == TRUE

\* if zone.brand != ZONE_BRAND_SOLARIS_KZ: raise
supports_suspend(brand) == brand = ZONE_BRAND_SOLARIS_KZ

\* A suspend that unplugs the interfaces before it suspends the zone.
suspendSteps_unplug_first == <<"su_resource", "su_unplug", "su_suspend">>

\* The steps of the try block of suspend, in the order of the code.
suspendSteps == <<"su_resource", "su_suspend", "su_unplug">>

\* After step pc of suspend: the next step, or the return.
SuNext(pc) ==
    LET i == CHOOSE k \in 1..Len(suspendSteps) : suspendSteps[k] = pc
    IN  IF i < Len(suspendSteps) THEN OGoto(suspendSteps[i + 1])
        ELSE ORaise("ok")

\* zc.removeresources('suspend') on the working copy
remove_suspend(cur, out) ==
    [cfg   |-> IF out = "ok" THEN None ELSE cur,
     calls |-> << <<"removeResources", out>> >>,
     err   |-> IF out = "ok" THEN NoErr ELSE <<"removeResources", out>>]

\* zc.addresource('suspend', [Property('path', path)]) on the working copy
add_suspend(cur, out) ==
    [cfg   |-> IF out = "ok" THEN "new" ELSE cur,
     calls |-> << <<"addResource", out>> >>,
     err   |-> IF out = "ok" THEN NoErr ELSE <<"addResource", out>>]

\* suspend up to the try: the zone must exist, be a kernel zone and run
SuCall ==
    /\ OCall("suspend", NoOArg)
    /\ IF ~ozone.exists THEN ORaise("InstanceNotFound")
       ELSE IF ~supports_suspend(ozone.brand) THEN ORaise("InstanceSuspendFailure")
       ELSE IF get_state(ozone.state) # "RUNNING" THEN ORaise("InstanceSuspendFailure")
       ELSE opc' = suspendSteps[1] /\ oerr' = "none" /\ ores' = "none"
    /\ olog' = <<>> /\ oloc' = NoLoc
    /\ UNCHANGED <<ozone, ometa>>

\* The suspend resource is looked up; one whose path is not the configured
\* one is removed in a session of its own.
SuResource ==
    /\ OStep("su_resource")
    /\ \E lk, lk2 \in LookupOutcomes, eout, bout, cout, xout \in CallOutcomes :
         LET res == IF lk = "OBJERR" THEN None ELSE ozone.suspend
             path == IF lk2 = "OBJERR" THEN None ELSE ozone.suspend
             body == remove_suspend(ozone.suspend, bout)
             ses == zcSession(ozone.suspend, body, eout, cout, xout)
             quiet == eout = "ok" /\ bout = "ok" /\ cout = "ok" /\ xout = "ok"
         IN  IF lk = "EXC"
             THEN /\ lk2 = "ok" /\ quiet
                  /\ ORaise("InstanceSuspendFailure") /\ UNCHANGED <<ozone, olog>>
             ELSE IF res = None
             THEN /\ lk2 = "ok" /\ quiet
                  /\ OGoto("su_set") /\ UNCHANGED <<ozone, olog>>
             ELSE IF lk2 = "EXC"
             THEN /\ quiet
                  /\ ORaise("InstanceSuspendFailure") /\ UNCHANGED <<ozone, olog>>
             ELSE IF path = "new"
             THEN /\ quiet
                  /\ SuNext(opc) /\ UNCHANGED <<ozone, olog>>
             ELSE /\ SessionAnswers(body.err, eout, bout, cout, xout)
                  /\ olog' = olog \o ses.calls
                  /\ ozone' = [ozone EXCEPT !.suspend = ses.cfg]
                  /\ IF ses.err # NoErr THEN ORaise("InstanceSuspendFailure")
                     ELSE OGoto("su_set")
    /\ UNCHANGED <<ometa, oloc>>

\* _set_suspend: the suspend resource is added with the configured path
SuSetSuspend ==
    /\ OStep("su_set")
    /\ \E eout, cout, xout \in CallOutcomes, bout \in Outcomes :
         LET body == add_suspend(ozone.suspend, bout)
             ses == zcSession(ozone.suspend, body, eout, cout, xout)
         IN  /\ SessionAnswers(body.err, eout, bout, cout, xout)
             /\ bout = "ok" => ozone.suspend = None
             /\ bout = "EXISTS" => ozone.suspend # None
             /\ olog' = olog \o ses.calls
             /\ ozone' = [ozone EXCEPT !.suspend = ses.cfg]
             /\ IF ses.err # NoErr THEN ORaise("InstanceSuspendFailure")
                ELSE SuNext("su_resource")
    /\ UNCHANGED <<ometa, oloc>>

\* zone.suspend()
SuSuspend ==
    /\ OStep("su_suspend")
    /\ \E out \in {"ok", "fail"} :
         /\ olog' = Append(olog, <<"suspend", out>>)
         /\ ozone' = [ozone EXCEPT !.state = IF out = "ok" THEN "installed" ELSE @]
         /\ IF out = "ok" THEN SuNext(opc) ELSE ORaise("InstanceSuspendFailure")
    /\ UNCHANGED <<ometa, oloc>>

\* self._unplug_vifs(instance)
SuUnplug ==
    /\ OStep("su_unplug")
    /\ olog' = Append(olog, <<"unplug_vifs", "ok">>)
    /\ SuNext(opc)
    /\ UNCHANGED <<ozone, ometa, oloc>>

\* resume up to the try: the zone must exist, be a kernel zone and be shut down
ReCall ==
    /\ OCall("resume", NoOArg)
    /\ IF ~ozone.exists THEN ORaise("InstanceNotFound")
       ELSE IF ~supports_suspend(ozone.brand) THEN ORaise("InstanceResumeFailure")
       ELSE IF get_state(ozone.state) # "SHUTDOWN" THEN ORaise("InstanceResumeFailure")
       ELSE opc' = "re_boot" /\ oerr' = "none" /\ ores' = "none"
    /\ olog' = <<>> /\ oloc' = NoLoc
    /\ UNCHANGED <<ozone, ometa>>

\* try: zone.boot(); self._plug_vifs(...)
ReBoot ==
    /\ OStep("re_boot")
    /\ \E out \in VerbOutcomes("boot", ozone.state) :
         /\ ozone' = [ozone EXCEPT !.state = IF out = "ok" THEN Effect("boot", @) ELSE @]
         /\ IF out = "ok"
            THEN /\ olog' = olog \o << <<"boot", out>>, <<"plug_vifs", "ok">> >>
                 /\ ORaise("ok")
            ELSE /\ olog' = Append(olog, <<"boot", out>>)
                 /\ ORaise("InstanceResumeFailure")
    /\ UNCHANGED <<ometa, oloc>>

------------------------------------------------------------------------------
(* Live migration: the checks on both hosts and the transfer *)

DestArgs == [halt_type : {None}, src_arch : Archs, dst_arch : Archs,
             brand : BrandSpecs, block_migration : BOOLEAN,
             disk_over_commit : BOOLEAN, local_volume : {FALSE}]

\* A destination check that lets disk overcommit through.
check_can_live_migrate_destination_overcommit(a) ==
    IF a.src_arch # a.dst_arch THEN "MigrationPreCheckError"
    ELSE IF get_brand_default(a.brand) # ZONE_BRAND_SOLARIS_KZ
    THEN "MigrationPreCheckError"
    ELSE IF a.block_migration THEN "MigrationPreCheckError"
    ELSE "dest_check_data"

\* check_can_live_migrate_destination: the error raised, or the migrate data
check_can_live_migrate_destination(a) ==
    IF a.src_arch # a.dst_arch THEN "MigrationPreCheckError"
    ELSE IF get_brand_default(a.brand) # ZONE_BRAND_SOLARIS_KZ
    THEN "MigrationPreCheckError"
    ELSE IF a.block_migration THEN "MigrationPreCheckError"
    ELSE IF a.disk_over_commit THEN "MigrationPreCheckError"
    ELSE "dest_check_data"

\* A source check that lets the error of the dry run through.
dry_run_error_raw(err) == err

\* except Exception as ex: raise exception.MigrationPreCheckError(reason=...)
dry_run_error(err) == "MigrationPreCheckError"

\* with excutils.save_and_reraise_exception(): the saved error is raised
\* again unless the body of the with block raises one of its own.
save_and_reraise_exception(saved, body) == IF body # "none" THEN body ELSE saved

\* A _live_migration whose errors never reach live_migration.
live_migration_error_swallowed(exists, out) == "none"

\* _live_migration: the error it raises ("none": the transfer went through)
live_migration_error(exists, out) ==
    IF ~exists THEN "InstanceNotFound"
    ELSE IF out = "ok" THEN "none" ELSE "BackendError"

CdCall ==
    /\ \E a \in DestArgs :
         /\ OCall("check_can_live_migrate_destination", a)
         /\ ORaise(check_can_live_migrate_destination(a))
    /\ olog' = <<>> /\ oloc' = NoLoc
    /\ UNCHANGED <<ozone, ometa>>

\* check_can_live_migrate_source up to the dry run
CsCall ==
    /\ \E lv \in BOOLEAN :
         /\ OCall("check_can_live_migrate_source", [NoOArg EXCEPT !.local_volume = lv])
         /\ IF lv THEN ORaise("MigrationPreCheckError")
            ELSE opc' = "cs_migrate" /\ oerr' = "none" /\ ores' = "none"
    /\ olog' = <<>> /\ oloc' = NoLoc
    /\ UNCHANGED <<ozone, ometa>>

\* try: self._live_migration(name, dest, dry_run=True)
CsMigrate ==
    /\ OStep("cs_migrate")
    /\ \E out \in {"ok", "fail"} :
         LET err == live_migration_error(ozone.exists, out)
         IN  /\ ~ozone.exists => out = "ok"
             /\ olog' = IF ozone.exists THEN Append(olog, <<"migrate_dry_run", out>>)
                        ELSE olog
             /\ ORaise(IF err = "none" THEN "dest_check_data" ELSE dry_run_error(err))
    /\ UNCHANGED <<ozone, ometa, oloc>>

LmCall ==
    /\ OCall("live_migration", NoOArg)
    /\ opc' = "lm_migrate" /\ oerr' = "none" /\ ores' = "none"
    /\ olog' = <<>> /\ oloc' = NoLoc
    /\ UNCHANGED <<ozone, ometa>>

\* try: self._live_migration(name, dest, dry_run=False)
LmMigrate ==
    /\ OStep("lm_migrate")
    /\ \E out \in {"ok", "fail"} :
         LET err == live_migration_error(ozone.exists, out)
         IN  /\ ~ozone.exists => out = "ok"
             /\ olog' = IF ozone.exists THEN Append(olog, <<"migrate", out>>) ELSE olog
             /\ ozone' = IF err = "none" THEN [ozone EXCEPT !.state = "configured"]
                         ELSE ozone
             /\ oerr' = err
             /\ opc' = IF err = "none" THEN "lm_post" ELSE "lm_recover"
    /\ UNCHANGED <<ometa, oloc, ores>>

\* except: with save_and_reraise_exception(): recover_method(...)
LmRecover ==
    /\ OStep("lm_recover")
    /\ \E out \in {"ok", "fail"} :
         /\ olog' = Append(olog, <<"recover_method", out>>)
         /\ ORaise(save_and_reraise_exception(
                       oerr, IF out = "ok" THEN "none" ELSE "RecoverError"))
    /\ UNCHANGED <<ozone, ometa, oloc>>

\* post_method(context, instance, dest, block_migration, migrate_data)
LmPost ==
    /\ OStep("lm_post")
    /\ \E out \in {"ok", "fail"} :
         /\ olog' = Append(olog, <<"post_method", out>>)
         /\ ORaise(IF out = "ok" THEN "ok" ELSE "PostError")
    /\ UNCHANGED <<ozone, ometa, oloc>>

\* The operation has returned or raised; the driver is ready for the next.
OReturn ==
    /\ opc = "done"
    /\ opc' = "idle"
    /\ oop' = "none" /\ oarg' = NoOArg /\ oloc' = NoLoc /\ olog' = <<>>
    /\ oerr' = "none" /\ ores' = "none"
    /\ owas' = [zone |-> ozone, meta |-> ometa]
    /\ UNCHANGED <<ozone, ometa, oconf, ounset>>
    /\ UNCHANGED notOp

OpNext ==
    \/ PoCall \/ PoBoot \/ PoFinally \/ PfCall \/ PfHalt
    \/ SuCall \/ SuResource \/ SuSetSuspend \/ SuSuspend \/ SuUnplug
    \/ ReCall \/ ReBoot
    \/ CdCall \/ CsCall \/ CsMigrate \/ LmCall \/ LmMigrate \/ LmRecover \/ LmPost
    \/ OReturn

\* The parts a specification leaves alone rest in one fixed state.
------------------------------------------------------------------------------
(* _set_network and _set_net_info                                           *)

MaxVifs == 2

AnetProps == {"lower-link", "configure-allowed-address", "mac-address", "mtu", "vlan-id"}
\* The value the backend reports for a property of a resource that has none.
Unset == ""
\* The anet resource of the brand templates and of a new resource without
\* properties: automatic link and address, no mtu and no vlan.
DefaultAnet ==
    [p \in AnetProps |->
        CASE p \in {"lower-link", "mac-address"} -> "auto"
          [] p = "configure-allowed-address" -> "true"
          [] OTHER -> Unset]
\* vif['address'] of the interfaces, by position
MacAddresses == <<"fa:16:3e:00:00:01", "fa:16:3e:00:00:02", "fa:16:3e:00:00:03",
                  "fa:16:3e:00:00:04">>
\* What _set_net_info reads of an interface: the provider network type, the
\* physical interface and the vlan of its details (None: not there), the mtu.
Vifs ==
    [network_type : {"gre"}, lower_link : {"net0"}, vlan_id : {None}, mtu : {"0", "1500"}]
    \cup [network_type : {"flat"}, lower_link : {"net0", None}, vlan_id : {None},
          mtu : {"0", "1500"}]
    \cup [network_type : {"vlan"}, lower_link : {"net0", None}, vlan_id : {"5", None},
          mtu : {"0", "1500"}]

\* _set_net_info before the session: the checks of the network type
net_info_error(vif) ==
    IF vif.network_type \notin {"vlan", "flat"} THEN "NovaException"
    ELSE IF vif.lower_link = None THEN "NovaException"
    ELSE IF vif.network_type = "vlan" /\ vif.vlan_id = None THEN "NovaException"
    ELSE "none"

\* The properties _set_net_info gives an interface, in the order it sets them.
net_props(vif, mac) ==
    << <<"lower-link", vif.lower_link>>,
       <<"configure-allowed-address", "false">>,
       <<"mac-address", mac>> >>
    \o (IF vif.mtu # "0" THEN << <<"mtu", vif.mtu>> >> ELSE <<>>)
    \o (IF vif.network_type = "vlan" THEN << <<"vlan-id", vif.vlan_id>> >> ELSE <<>>)

\* zc.setprop('anet', prop, value) on the resources anets: the resource is not
\* filtered, the first one answers the lookup.
anet_setprop(anets, p, v) ==
    LET current == IF anets = <<>> THEN None ELSE anets[1][p]
    IN  IF current # None /\ current = v THEN anets
        ELSE IF current = None
             THEN Append(anets, [DefaultAnet EXCEPT ![p] = v])
        ELSE [anets EXCEPT ![1][p] = v]
RECURSIVE anet_setprops(_, _)
anet_setprops(anets, props) ==
    IF props = <<>> THEN anets
    ELSE anet_setprops(anet_setprop(anets, Head(props)[1], Head(props)[2]), Tail(props))

\* zc.addresource('anet', props)
anet_addresource(anets, props) ==
    Append(anets, [p \in AnetProps |->
                      IF \E k \in 1..Len(props) : props[k][1] = p
                      THEN (CHOOSE pr \in {props[k] : k \in 1..Len(props)} : pr[1] = p)[2]
                      ELSE DefaultAnet[p]])

\* An interface loop that adds a resource for every interface.
first_anet_never(vifid) == FALSE
\* vifid == 0
first_anet(vifid) == vifid = 0

\* The body of the session of _set_net_info
net_session(anets, vifid, vif, mac) ==
    IF first_anet(vifid) THEN anet_setprops(anets, net_props(vif, mac))
    ELSE anet_addresource(anets, net_props(vif, mac))

NetInit ==
    /\ nanets = <<DefaultAnet>>
    /\ nvifs = <<>>
    /\ npc = "idle"
    /\ nidx = 0
    /\ nlog = <<>>
    /\ nres = "none"

NetDone(res) == nres' = res /\ npc' = "done"

\* _set_network(network_info): the zone is looked up
NetCall ==
    /\ npc = "idle"
    /\ \E vifs \in SeqsUpTo(Vifs, MaxVifs), found \in BOOLEAN :
         /\ nvifs' = vifs
         /\ IF ~found THEN NetDone("InstanceNotFound") /\ nidx' = 0
            ELSE /\ npc' = IF vifs = <<>> THEN "no_vifs" ELSE "vif"
                 /\ nidx' = 1
                 /\ UNCHANGED nres
    /\ UNCHANGED <<nanets, nlog>>
    /\ UNCHANGED notNet

\* if not network_info: the default resource is removed
NetNoVifs ==
    /\ npc = "no_vifs"
    /\ \E fail \in {"none", "editConfig", "body", "commitConfig"} :
         /\ nlog' = IF fail = "editConfig" THEN nlog
                    ELSE Append(nlog, <<"removeresources", 0>>)
         /\ nanets' = IF fail = "none" THEN <<>> ELSE nanets
         /\ NetDone(IF fail = "none" THEN "ok"
                    ELSE IF fail = "editConfig" THEN "AttributeError"
                    ELSE "BackendError")
    /\ UNCHANGED <<nvifs, nidx>>
    /\ UNCHANGED notNet

\* One round of the loop: _set_net_info for the interface in its own session
\* and the sysconfig profile of the interface.  fail names the call that raises.
NetVif ==
    /\ npc = "vif"
    /\ LET vif == nvifs[nidx]
           vifid == nidx - 1
           e == net_info_error(vif)
       IN  \E fail \in {"none", "show_network", "editConfig", "body", "commitConfig",
                        "sysconfig"} :
             IF fail = "show_network"
             THEN NetDone("BackendError") /\ UNCHANGED <<nanets, nlog, nidx>>
             ELSE IF e # "none"
             THEN fail = "none" /\ NetDone(e) /\ UNCHANGED <<nanets, nlog, nidx>>
             ELSE IF fail = "editConfig"
             THEN NetDone("AttributeError") /\ UNCHANGED <<nanets, nlog, nidx>>
             ELSE /\ nlog' = Append(nlog, <<IF first_anet(vifid) THEN "setprop"
                                            ELSE "addresource", nidx>>)
                  /\ nanets' = IF fail \in {"body", "commitConfig"} THEN nanets
                               ELSE net_session(nanets, vifid, vif, MacAddresses[nidx])
                  /\ IF fail # "none"
                     THEN NetDone(IF fail = "sysconfig" THEN "IOError" ELSE "BackendError")
                          /\ UNCHANGED nidx
                     ELSE IF nidx = Len(nvifs) THEN NetDone("ok") /\ UNCHANGED nidx
                     ELSE nidx' = nidx + 1 /\ UNCHANGED <<npc, nres>>
    /\ UNCHANGED nvifs
    /\ UNCHANGED notNet

\* The caller goes on; the next call meets another new configuration.
NetReturn ==
    /\ npc = "done"
    /\ npc' = "idle"
    /\ nanets' = <<DefaultAnet>>
    /\ nvifs' = <<>> /\ nidx' = 0 /\ nlog' = <<>> /\ nres' = "none"
    /\ UNCHANGED notNet

NetNext == NetCall \/ NetNoVifs \/ NetVif \/ NetReturn

NetQuiet == NetInit

------------------------------------------------------------------------------
(* attach_volume                                                            *)

Mountpoints == {"sdb", "sdc"}
\* _get_device_index for single-letter devices: ord(letter) - ord('a')
get_device_index(mountpoint) == IF mountpoint = "sdb" THEN 1 ELSE 2
NoAZone == [exists |-> FALSE, brand |-> ZONE_BRAND_SOLARIS, state |-> NoZone,
            devices |-> {}]
AZones == {NoAZone}
          \cup [exists : {TRUE}, brand : {ZONE_BRAND_SOLARIS, ZONE_BRAND_SOLARIS_KZ},
                state : {"installed", "running"}, devices : {{0}, {0, 1}, {0, 2}}]
NoAArg == [mountpoint |-> "sdb", resolves |-> TRUE]

\* attach_volume before the configuration is edited: the error it raises
attach_precheck(zone, a) ==
    IF ~zone.exists THEN "InstanceNotFound"
    ELSE IF zone.brand # ZONE_BRAND_SOLARIS_KZ THEN "NotImplementedError"
    ELSE IF ~a.resolves THEN "VolumeDriverNotFound"
    ELSE "none"

\* try: with ZoneConfig(zone) as zc: zc.addresource(...) / except: LOG.error
\* The position attach_volume goes to after the session, by its error.
after_addresource(err) == "av_apply"

AttInit ==
    /\ azone \in AZones
    /\ aarg = NoAArg
    /\ apc = "idle"
    /\ alog = <<>>
    /\ ares = "none"

AvDone(res) == ares' = res /\ apc' = "done"

AvCall ==
    /\ apc = "idle"
    /\ \E a \in [mountpoint : Mountpoints, resolves : BOOLEAN] :
         /\ aarg' = a
         /\ IF attach_precheck(azone, a) # "none" THEN AvDone(attach_precheck(azone, a))
            ELSE apc' = "av_add" /\ UNCHANGED ares
    /\ alog' = <<>>
    /\ UNCHANGED azone
    /\ UNCHANGED notAtt

\* The session that adds the device resource; fail names the call that raises
\* (the backend refuses a device whose id is in use).
AvAdd ==
    /\ apc = "av_add"
    /\ LET id == get_device_index(aarg.mountpoint)
       IN  \E fail \in {"none", "editConfig", "addResource", "commitConfig"} :
             /\ fail = "none" => id \notin azone.devices
             /\ alog' = Append(alog, <<"addresource", IF fail = "none" THEN "ok" ELSE "fail">>)
             /\ azone' = IF fail = "none"
                         THEN [azone EXCEPT !.devices = @ \cup {id}] ELSE azone
             /\ apc' = IF fail = "none" THEN "av_apply" ELSE after_addresource(fail)
    /\ UNCHANGED <<aarg, ares>>
    /\ UNCHANGED notAtt

\* if zone.state == ZONE_STATE_RUNNING: zone.apply(); on failure the device
\* resource is removed again and the error raised
AvApply ==
    /\ apc = "av_apply"
    /\ LET id == get_device_index(aarg.mountpoint)
       IN  IF azone.state # "running"
           THEN AvDone("ok") /\ UNCHANGED <<azone, alog>>
           ELSE \E out \in {"ok", "fail"}, rm \in {"ok", "fail"} :
                  /\ out = "ok" => rm = "ok"
                  /\ IF out = "ok"
                     THEN /\ alog' = Append(alog, <<"apply", "ok">>)
                          /\ AvDone("ok") /\ UNCHANGED azone
                     ELSE /\ alog' = alog \o << <<"apply", "fail">>,
                                               <<"removeresources", rm>> >>
                          /\ azone' = IF rm = "ok"
                                      THEN [azone EXCEPT !.devices = @ \ {id}]
                                      ELSE azone
                          /\ AvDone("BackendError")
    /\ UNCHANGED aarg
    /\ UNCHANGED notAtt

AvReturn ==
    /\ apc = "done"
    /\ apc' = "idle"
    /\ UNCHANGED <<azone, aarg, alog, ares>>
    /\ UNCHANGED notAtt

AttNext == AvCall \/ AvAdd \/ AvApply \/ AvReturn

AttQuiet == AttInit /\ azone = NoAZone

------------------------------------------------------------------------------
(* _fetch_image: the glance cache shared by the spawns of one image         *)

MaxSpawns == 3
Spawns == 1..MaxSpawns
\* The cache before the first spawn: empty, the image cached, or the partial
\* file an interrupted download left behind.
Caches == { [image |-> "absent", downloading |-> "absent"],
            [image |-> "complete", downloading |-> "absent"],
            [image |-> "absent", downloading |-> "partial"] }
\* A lock that lets every caller in.
lock_free_always(holder) == TRUE
\* with lockutils.lock('glance-image-%s' % iref): the semaphore can be taken
lock_free(holder) == holder = 0

\* Where _fetch_image goes after looking at the cache, and what it removes.
fetch_image_check(files) ==
    IF files.downloading # "absent" THEN "unlink"
    ELSE IF files.image # "absent" THEN "cached"
    ELSE "fetch"

ImgInit ==
    /\ ifiles \in Caches
    /\ ilock = 0
    /\ ithr = [t \in Spawns |-> [pc |-> "idle", res |-> "none"]]
    /\ ilog = <<>>

ImAt(t, pc) == ithr[t].pc = pc
ImGoto(t, pc) == ithr' = [ithr EXCEPT ![t].pc = pc]
ImEnd(t, res) == ithr' = [ithr EXCEPT ![t] = [pc |-> "unlock", res |-> res]]

\* a spawn calls _fetch_image and waits for the lock
ImCall(t) ==
    /\ ImAt(t, "idle")
    /\ ImGoto(t, "lock")
    /\ UNCHANGED <<ifiles, ilock, ilog>>
    /\ UNCHANGED notImg

ImLock(t) ==
    /\ ImAt(t, "lock")
    /\ lock_free(ilock)
    /\ ilock' = t
    /\ ImGoto(t, "check")
    /\ UNCHANGED <<ifiles, ilog>>
    /\ UNCHANGED notImg

\* isfile(downloading): unlink / exists(image): return image
ImCheck(t) ==
    /\ ImAt(t, "check")
    /\ LET c == fetch_image_check(ifiles)
       IN  CASE c = "unlink" -> /\ ifiles' = [ifiles EXCEPT !.downloading = "absent"]
                                /\ ImGoto(t, "fetch")
             [] c = "cached" -> UNCHANGED ifiles /\ ImEnd(t, "image")
             [] OTHER -> UNCHANGED ifiles /\ ImGoto(t, "fetch")
    /\ UNCHANGED <<ilock, ilog>>
    /\ UNCHANGED notImg

\* images.fetch(context, iref, downloading) starts to write the file
ImFetch(t) ==
    /\ ImAt(t, "fetch")
    /\ ifiles' = [ifiles EXCEPT !.downloading = "partial"]
    /\ ilog' = Append(ilog, <<t, "started">>)
    /\ ImGoto(t, "fetching")
    /\ UNCHANGED ilock
    /\ UNCHANGED notImg

\* the download ends: the file is complete, or the download failed and left
\* what it had written
ImFetched(t) ==
    /\ ImAt(t, "fetching")
    /\ \E k \in 1..Len(ilog) :
         /\ ilog[k] = <<t, "started">>
         /\ \E out \in {"ok", "fail"} :
              /\ ilog' = [ilog EXCEPT ![k] = <<t, out>>]
              /\ IF out = "ok"
                 THEN /\ ifiles' = [ifiles EXCEPT !.downloading =
                                       IF @ = "absent" THEN @ ELSE "complete"]
                      /\ ImGoto(t, "rename")
                 ELSE UNCHANGED ifiles /\ ImEnd(t, "error")
    /\ UNCHANGED ilock
    /\ UNCHANGED notImg

\* os.rename(downloading, image); return image
ImRename(t) ==
    /\ ImAt(t, "rename")
    /\ IF ifiles.downloading = "absent"
       THEN UNCHANGED ifiles /\ ImEnd(t, "error")
       ELSE /\ ifiles' = [image |-> ifiles.downloading, downloading |-> "absent"]
            /\ ImEnd(t, "image")
    /\ UNCHANGED <<ilock, ilog>>
    /\ UNCHANGED notImg

\* the with block is left, by return or by the exception
ImUnlock(t) ==
    /\ ImAt(t, "unlock")
    /\ ilock' = IF ilock = t THEN 0 ELSE ilock
    /\ ImGoto(t, "done")
    /\ UNCHANGED <<ifiles, ilog>>
    /\ UNCHANGED notImg

ImgNext ==
    \E t \in Spawns :
        \/ ImCall(t) \/ ImLock(t) \/ ImCheck(t) \/ ImFetch(t) \/ ImFetched(t)
        \/ ImRename(t) \/ ImUnlock(t)

ImgQuiet == ImgInit /\ ifiles.image = "absent" /\ ifiles.downloading = "absent"

------------------------------------------------------------------------------
(* CPU statistics of the diagnostics: _get_zone_diagnostics                 *)

\* The accumulator as this function reads it: one carried statistic.
DiagAccums == [ok : {TRUE}, gen_num : {1, 2}, cpu_nsec_user : {0, 10},
               cpu_nsec_kernel : {0}]
\* The per-CPU values of the statistic of 1..MaxCpus CPUs
DiagReads == SeqsUpTo({1, 2}, MaxCpus) \ {<<>>}

\* diagnostics = defaultdict(lambda: 0) is built once, before the loop: an
\* attempt starts with what the attempts before it left in the entry.
diagnostics_at_attempt(value) == value

DiagInit ==
    /\ gpc = "idle"
    /\ gattempt = 0
    /\ gdiag = 0
    /\ ginit = NoAccum
    /\ greads = <<>>
    /\ gres = NoRes

DgDone(res) == gres' = res /\ gpc' = "done"
\* continue, or the else of the for loop after the third attempt
DgContinue ==
    IF gattempt < 3
    THEN gattempt' = gattempt + 1 /\ gpc' = "attempt" /\ UNCHANGED gres
    ELSE UNCHANGED gattempt /\ DgDone([kind |-> "MaxRetriesExceeded", val |-> 0])

\* _get_zone_diagnostics(zone): None unless the zone is running
DgCall ==
    /\ gpc = "idle"
    /\ gdiag' = 0 /\ ginit' = NoAccum /\ greads' = <<>>
    /\ \E running \in BOOLEAN :
         IF running THEN gattempt' = 1 /\ gpc' = "attempt" /\ gres' = NoRes
         ELSE gattempt' = 0 /\ DgDone([kind |-> "None", val |-> 0])
    /\ UNCHANGED notDiag

\* initial = _kstat_data(accum_uri); cpus = _kstat_data(uri)
DgAttempt ==
    /\ gpc = "attempt"
    /\ gdiag' = diagnostics_at_attempt(gdiag)
    /\ greads' = <<>>
    /\ \E initial \in DiagAccums \cup {NoAccum}, cpus \in BOOLEAN, running \in BOOLEAN :
         /\ cpus => running
         /\ ginit' = initial
         /\ IF cpus THEN gpc' = "cpus" /\ UNCHANGED <<gattempt, gres>>
            ELSE IF ~running
            THEN UNCHANGED gattempt /\ DgDone([kind |-> "None", val |-> 0])
            ELSE DgContinue
    /\ UNCHANGED notDiag

\* the kstats of every CPU are read and the statistic summed into diagnostics;
\* a read that fails ends the attempt
DgCpus ==
    /\ gpc = "cpus"
    /\ \E reads \in DiagReads, failed \in BOOLEAN, running \in BOOLEAN :
         /\ ~failed => running
         /\ IF ~failed
            THEN /\ greads' = reads
                 /\ gdiag' = gdiag + SumSeq(reads)
                 /\ gpc' = "final"
                 /\ UNCHANGED <<gattempt, gres>>
            ELSE /\ UNCHANGED <<greads, gdiag>>
                 /\ IF ~running
                    THEN UNCHANGED gattempt /\ DgDone([kind |-> "None", val |-> 0])
                    ELSE DgContinue
    /\ UNCHANGED ginit
    /\ UNCHANGED notDiag

\* final = _kstat_data(accum_uri); if the generation number is the same the
\* carried value is added and the loop left
DgFinal ==
    /\ gpc = "final"
    /\ \E final \in DiagAccums \cup {NoAccum} :
         IF ~ginit.ok \/ ~final.ok
         THEN UNCHANGED <<gdiag, gattempt>> /\ DgDone([kind |-> "TypeError", val |-> 0])
         ELSE IF ginit.gen_num = final.gen_num
         THEN /\ gdiag' = gdiag + ginit.cpu_nsec_user
              /\ UNCHANGED gattempt
              /\ DgDone(Value(gdiag + ginit.cpu_nsec_user))
         ELSE UNCHANGED gdiag /\ DgContinue
    /\ UNCHANGED <<ginit, greads>>
    /\ UNCHANGED notDiag

DgReturn ==
    /\ gpc = "done"
    /\ gpc' = "idle"
    /\ UNCHANGED <<gattempt, gdiag, ginit, greads, gres>>
    /\ UNCHANGED notDiag

DiagNext == DgCall \/ DgAttempt \/ DgCpus \/ DgFinal \/ DgReturn

DiagQuiet == DiagInit

-------------------------------------------------------------------------------
(* rebuild, and the evacuation early return of destroy                      *)

\* The driver type of the root volume's connection, or "none" without one.
RootTypes == {"none", "iscsi", "local"}
shared_storage == {"iscsi", "fibre_channel"}
NoRArg == [op |-> "none", recreate |-> FALSE, brand |-> "unset",
           root_ci |-> "none", task |-> "none", before |-> {}, zone |-> FALSE]

\* rebuild: instance.system_metadata['evac_from'] = instance['launched_on'],
\* and instance.save(), precede the check of the brand
evac_mark(brand) == {"evac_from"}

\* destroy: evac_from is not None and instance['task_state'] is None
evac_early_return(meta, task) == "evac_from" \in meta /\ task = "none"

RebInit ==
    /\ rmeta = {}
    /\ rinst = {}
    /\ rhost \in {"launched_on", "target"}
    /\ rzone = TRUE
    /\ rnew = FALSE
    /\ rarg = NoRArg
    /\ rpc = "idle"
    /\ rres = "none"

RbDone(res) == rres' = res /\ rpc' = "done"

\* rebuild is called: the instance object carries the persisted metadata
RbCall ==
    /\ rpc = "idle"
    /\ \E recreate \in BOOLEAN, brand \in BrandSpecs, root_ci \in RootTypes :
          rarg' = [op |-> "rebuild", recreate |-> recreate, brand |-> brand,
                   root_ci |-> root_ci, task |-> "rebuilding",
                   before |-> rmeta, zone |-> rzone]
    /\ rinst' = rmeta
    /\ rpc' = "rb_gate"
    /\ rres' = "none"
    /\ UNCHANGED <<rmeta, rhost, rzone, rnew>>
    /\ UNCHANGED notReb

\* if recreate: mark, save, check the brand; else: power off
RbGate ==
    /\ rpc = "rb_gate"
    /\ IF rarg.recreate
       THEN /\ rinst' = rinst \cup evac_mark(rarg.brand)
            /\ rmeta' = rinst'
            /\ IF get_brand_default(rarg.brand) = ZONE_BRAND_SOLARIS
               THEN RbDone("NovaException")
               ELSE rpc' = "rb_bdm" /\ rres' = rres
       ELSE /\ \E ok \in BOOLEAN :
                 IF ok THEN rpc' = "rb_bdm" /\ rres' = rres
                 ELSE RbDone("error")
            /\ UNCHANGED <<rinst, rmeta>>
    /\ UNCHANGED <<rhost, rzone, rnew, rarg>>
    /\ UNCHANGED notReb

\* the task state is saved; _rebuild_block_devices; the shared storage check
RbBdm ==
    /\ rpc = "rb_bdm"
    /\ rmeta' = rinst
    /\ IF rarg.recreate /\ rarg.root_ci \notin shared_storage
       THEN RbDone("NovaException")
       ELSE rpc' = (IF rarg.recreate THEN "rb_spawn" ELSE "rb_destroy")
            /\ rres' = rres
    /\ UNCHANGED <<rinst, rhost, rzone, rnew, rarg>>
    /\ UNCHANGED notReb

\* if not recreate: destroy, then detach and delete the root volume
RbDestroy ==
    /\ rpc = "rb_destroy"
    /\ \E ok \in BOOLEAN :
          IF ok THEN rzone' = FALSE /\ rpc' = "rb_spawn" /\ rres' = rres
          ELSE rzone' \in {rzone, FALSE} /\ RbDone("error")
    /\ UNCHANGED <<rmeta, rinst, rhost, rnew, rarg>>
    /\ UNCHANGED notReb

\* the task state is saved; recreate: _create_config is given the root
\* volume's connection_info; else: spawn, and the rest of rebuild
RbSpawn ==
    /\ rpc = "rb_spawn"
    /\ rmeta' = rinst
    /\ IF rarg.recreate
       THEN /\ rinst' = rinst \cup {"rebuilding"}
            /\ rnew' = TRUE
            /\ RbDone(create_config_error("connection_info"))
            /\ rzone' = rzone
       ELSE /\ rnew' = rnew
            /\ \E ok \in BOOLEAN :
                 IF ok THEN /\ rinst' = rinst
                            /\ rzone' = TRUE
                            /\ RbDone("ok")
                 ELSE /\ rinst' = rinst \cup {"rebuilding"}
                      /\ rzone' \in BOOLEAN
                      /\ RbDone("error")
    /\ UNCHANGED <<rhost, rarg>>
    /\ UNCHANGED notReb

\* destroy is called for the instance, outside a resize
DsCall ==
    /\ rpc = "idle"
    /\ \E task \in {"none", "deleting"} :
          rarg' = [op |-> "destroy", recreate |-> FALSE, brand |-> "unset",
                   root_ci |-> "none", task |-> task,
                   before |-> rmeta, zone |-> rzone]
    /\ rinst' = rmeta
    /\ rpc' = "ds_gate"
    /\ rres' = "none"
    /\ UNCHANGED <<rmeta, rhost, rzone, rnew>>
    /\ UNCHANGED notReb

\* the evacuation early return: host and node reset, the marker removed, saved
DsGate ==
    /\ rpc = "ds_gate"
    /\ IF evac_early_return(rinst, rarg.task)
       THEN /\ rhost' = "launched_on"
            /\ rinst' = rinst \ {"evac_from"}
            /\ rmeta' = rinst'
            /\ RbDone("ok")
       ELSE /\ rpc' = "ds_teardown"
            /\ UNCHANGED <<rhost, rinst, rmeta, rres>>
    /\ UNCHANGED <<rzone, rnew, rarg>>
    /\ UNCHANGED notReb

\* the teardown of the zone: every failure in it is caught
DsTeardown ==
    /\ rpc = "ds_teardown"
    /\ rzone' \in (IF rzone THEN BOOLEAN ELSE {FALSE})
    /\ RbDone("ok")
    /\ UNCHANGED <<rmeta, rinst, rhost, rnew, rarg>>
    /\ UNCHANGED notReb

\* the caller takes the result
RReturn ==
    /\ rpc = "done"
    /\ rpc' = "idle"
    /\ UNCHANGED <<rmeta, rinst, rhost, rzone, rnew, rarg, rres>>
    /\ UNCHANGED notReb

RebNext == RbCall \/ RbGate \/ RbBdm \/ RbDestroy \/ RbSpawn
           \/ DsCall \/ DsGate \/ DsTeardown \/ RReturn

RebQuiet == RebInit /\ rhost = "launched_on"

-------------------------------------------------------------------------------
(* finish_revert_migration and _samehost_revert_resize                      *)

ResizeKeys == {"resize_samehost", "old_instance_volid", "new_instance_volid"}
VolumeKeys == {"old_instance_volid", "new_instance_volid"}
\* migrate_disk_and_power_off sets the two volume keys together, and
\* resize_samehost for a resize on this host.
RevertMetas == {m \in SUBSET ResizeKeys : m \cap VolumeKeys \in {{}, VolumeKeys}}
\* The volumes after a resize: with a replacement root volume, or without.
RevertVols(meta) ==
    IF VolumeKeys \subseteq meta THEN [old |-> "detached", new |-> "attached"]
    ELSE [old |-> "attached", new |-> "none"]
ResizedZone == [exists |-> TRUE, caps |-> "new", boot |-> "new"]
NoVArg == [meta |-> {}, brand |-> "unset", power_on |-> TRUE]

\* The calls of a step sequence up to its first failure: step k fails, or
\* none does when k = 0.
StepLog(steps, k) ==
    [i \in 1..(IF k = 0 THEN Len(steps) ELSE k) |->
        <<steps[i][1], steps[i][2], IF i = k THEN "fail" ELSE "ok">>]
StepDone(k, i) == k = 0 \/ i < k

\* _resize_disk_migration(context, instance, new_rvid, old_rvid, ...): a
\* zone of brand 'solaris' is detached around the change of its boot device
resize_disk_steps(brand) ==
    <<<<"initialize_connection", "old">>>>
    \o (IF brand = ZONE_BRAND_SOLARIS THEN <<<<"zone_detach", "zone">>>> ELSE <<>>)
    \o <<<<"set_boot_device", "old">>>>
    \o (IF brand = ZONE_BRAND_SOLARIS THEN <<<<"zone_attach", "zone">>>> ELSE <<>>)
    \o <<<<"detach", "new">>, <<"attach", "old">>, <<"bdm_save", "old">>>>
\* The position of a call in a step sequence.
StepAt(steps, op) == CHOOSE i \in 1..Len(steps) : steps[i][1] = op
\* finally: zone.attach(), after a _set_boot_device that raised
finally_attach(steps, k) ==
    IF k # 0 /\ steps[k][1] = "set_boot_device" /\ k < Len(steps)
       /\ steps[k + 1][1] = "zone_attach"
    THEN {<<<<"zone_attach", "zone", out>>>> : out \in {"ok", "fail"}}
    ELSE {<<>>}
\* finish_revert_migration with an old_instance_volid
revert_volume_steps ==
    <<<<"initialize_connection", "old">>, <<"detach", "new">>,
      <<"delete", "new">>, <<"attach", "old">>, <<"bdm_save", "old">>>>

\* del instance.system_metadata[key]
del_key(meta, key) ==
    IF key \in meta THEN [err |-> "none", meta |-> meta \ {key}]
    ELSE [err |-> "KeyError", meta |-> meta]

RevInit ==
    /\ vmeta \in RevertMetas
    /\ vvol = RevertVols(vmeta)
    /\ vzone = ResizedZone
    /\ vpow \in {"on", "off"}
    /\ varg = NoVArg
    /\ vpc = "idle"
    /\ vlog = <<>>
    /\ vres = "none"

RvDone(res) == vres' = res /\ vpc' = "done"
RvGoto(pc) == vpc' = pc /\ vres' = vres

\* samehost = instance.system_metadata.get('resize_samehost')
RvCall ==
    /\ vpc = "idle"
    /\ \E brand \in BrandSpecs, power_on \in BOOLEAN :
          varg' = [meta |-> vmeta, brand |-> brand, power_on |-> power_on]
    /\ vlog' = <<>>
    /\ vres' = "none"
    /\ vpc' = IF "resize_samehost" \in vmeta THEN "sr_power_off" ELSE "rv_volumes"
    /\ UNCHANGED <<vmeta, vvol, vzone, vpow>>
    /\ UNCHANGED notRev

\* _samehost_revert_resize: self.power_off(instance)
SrPowerOff ==
    /\ vpc = "sr_power_off"
    /\ \E out \in {"ok", "fail"} :
         /\ vlog' = Append(vlog, <<"power_off", "zone", out>>)
         /\ IF out = "ok" THEN vpow' = "off" /\ RvGoto("sr_caps")
            ELSE vpow' = vpow /\ RvDone("error")
    /\ UNCHANGED <<vmeta, vvol, vzone, varg>>
    /\ UNCHANGED notRev

\* _set_num_cpu and _set_memory_cap with the instance's old values
SrCaps ==
    /\ vpc = "sr_caps"
    /\ \E out \in {"ok", "fail"} :
         /\ vlog' = Append(vlog, <<"set_caps", "zone", out>>)
         /\ IF out = "ok" THEN vzone' = [vzone EXCEPT !.caps = "old"] /\ RvGoto("sr_disk")
            ELSE vzone' = vzone /\ RvDone("error")
    /\ UNCHANGED <<vmeta, vvol, vpow, varg>>
    /\ UNCHANGED notRev

\* if old_rvid: del old_instance_volid; _resize_disk_migration;
\* del resize_samehost
SrDisk ==
    /\ vpc = "sr_disk"
    /\ IF "old_instance_volid" \in vmeta
       THEN \E k \in 0..Len(resize_disk_steps(get_brand_default(varg.brand))) :
              LET steps == resize_disk_steps(get_brand_default(varg.brand))
                  d == del_key(vmeta \ {"old_instance_volid"}, "resize_samehost")
              IN  /\ \E fin \in finally_attach(steps, k) :
                         vlog' = vlog \o StepLog(steps, k) \o fin
                  /\ vzone' = IF StepDone(k, StepAt(steps, "set_boot_device"))
                              THEN [vzone EXCEPT !.boot = "old"] ELSE vzone
                  /\ vvol' = [old |-> IF StepDone(k, StepAt(steps, "attach"))
                                      THEN "attached" ELSE vvol.old,
                              new |-> IF StepDone(k, StepAt(steps, "detach"))
                                      THEN "detached" ELSE vvol.new]
                  /\ IF k # 0
                     THEN vmeta' = vmeta \ {"old_instance_volid"} /\ RvDone("error")
                     ELSE /\ vmeta' = d.meta
                          /\ IF d.err # "none" THEN RvDone(d.err)
                             ELSE RvGoto("rv_del_samehost")
       ELSE /\ RvGoto("rv_del_samehost")
            /\ UNCHANGED <<vmeta, vvol, vzone, vlog>>
    /\ UNCHANGED <<vpow, varg>>
    /\ UNCHANGED notRev

\* finish_revert_migration: del instance.system_metadata['resize_samehost']
RvDelSamehost ==
    /\ vpc = "rv_del_samehost"
    /\ LET d == del_key(vmeta, "resize_samehost")
       IN  /\ vmeta' = d.meta
           /\ IF d.err # "none" THEN RvDone(d.err) ELSE RvGoto("rv_volumes")
    /\ UNCHANGED <<vvol, vzone, vpow, varg, vlog>>
    /\ UNCHANGED notRev

\* if old_rvid: the replacement is detached and deleted, the original
\* attached, both keys deleted; else: a new_instance_volid is deleted with
\* its volume
RvVolumes ==
    /\ vpc = "rv_volumes"
    /\ IF "old_instance_volid" \in vmeta
       THEN \E k \in 0..Len(revert_volume_steps) :
              /\ vlog' = vlog \o StepLog(revert_volume_steps, k)
              /\ vvol' = [old |-> IF StepDone(k, 4) THEN "attached" ELSE vvol.old,
                          new |-> IF StepDone(k, 3) THEN "deleted"
                                  ELSE IF StepDone(k, 2) THEN "detached"
                                  ELSE vvol.new]
              /\ IF k # 0 THEN vmeta' = vmeta /\ RvDone("error")
                 ELSE vmeta' = vmeta \ VolumeKeys /\ RvGoto("rv_power_on")
       ELSE IF "new_instance_volid" \in vmeta
       THEN \E out \in {"ok", "fail"} :
              /\ vmeta' = vmeta \ {"new_instance_volid"}
              /\ vlog' = Append(vlog, <<"delete", "new", out>>)
              /\ IF out = "ok"
                 THEN vvol' = [vvol EXCEPT !.new = "deleted"] /\ RvGoto("rv_power_on")
                 ELSE vvol' = vvol /\ RvDone("error")
       ELSE /\ RvGoto("rv_power_on")
            /\ UNCHANGED <<vmeta, vvol, vlog>>
    /\ UNCHANGED <<vzone, vpow, varg>>
    /\ UNCHANGED notRev

\* self._power_on(instance, network_info)
RvPowerOn ==
    /\ vpc = "rv_power_on"
    /\ \E out \in {"ok", "fail"} :
         /\ vlog' = Append(vlog, <<"power_on", "zone", out>>)
         /\ IF out = "ok" THEN vpow' = "on" /\ RvDone("ok")
            ELSE vpow' = vpow /\ RvDone("error")
    /\ UNCHANGED <<vmeta, vvol, vzone, varg>>
    /\ UNCHANGED notRev

\* The caller takes the result; the next revert is that of another resize.
RvReturn ==
    /\ vpc = "done"
    /\ vmeta' \in RevertMetas
    /\ vvol' = RevertVols(vmeta')
    /\ vzone' = ResizedZone
    /\ vpow' \in {"on", "off"}
    /\ varg' = NoVArg
    /\ vpc' = "idle"
    /\ vlog' = <<>>
    /\ vres' = "none"
    /\ UNCHANGED notRev

RevNext == RvCall \/ SrPowerOff \/ SrCaps \/ SrDisk \/ RvDelSamehost
           \/ RvVolumes \/ RvPowerOn \/ RvReturn

RevQuiet == RevInit /\ vmeta = {} /\ vpow = "off"

ZCQuiet ==
    /\ committed = [r \in Res |-> Absent]
    /\ pending = committed
    /\ bEditing = FALSE
    /\ zcpc = "idle"
    /\ editing = FALSE
    /\ excType = NoErr
    /\ calls = <<>>
    /\ result = NoErr
    /\ before = committed
    /\ last = NoOp
    /\ nops = 0
DrvQuiet ==
    /\ zstate = NoZone
    /\ dop = "none"
    /\ dpc = "idle"
    /\ inst = NoInst
    /\ dlog = <<>>
    /\ derr = "none"
    /\ dres = "none"
    /\ dfail = FALSE
    /\ dstart = NoZone
    /\ dprev = NoPrev

ConcQuiet == ConcInit
FCQuiet == FCInit /\ fports = <<>> /\ fexec
MigQuiet == MigInit /\ mpow = "off"

StatQuiet == StatInit

OpQuiet == OpInit /\ ~ozone.exists /\ ometa = NoMeta /\ oconf /\ ounset = None

InitZC == ZCInit /\ DrvQuiet /\ ConcQuiet /\ FCQuiet /\ MigQuiet /\ StatQuiet /\ OpQuiet /\ NetQuiet /\ AttQuiet /\ ImgQuiet /\ DiagQuiet /\ RebQuiet /\ RevQuiet
InitDrv == DrvInit /\ ZCQuiet /\ ConcQuiet /\ FCQuiet /\ MigQuiet /\ StatQuiet /\ OpQuiet /\ NetQuiet /\ AttQuiet /\ ImgQuiet /\ DiagQuiet /\ RebQuiet /\ RevQuiet
InitConc == ConcInit /\ ZCQuiet /\ DrvQuiet /\ FCQuiet /\ MigQuiet /\ StatQuiet /\ OpQuiet /\ NetQuiet /\ AttQuiet /\ ImgQuiet /\ DiagQuiet /\ RebQuiet /\ RevQuiet
InitFC == FCInit /\ ZCQuiet /\ DrvQuiet /\ ConcQuiet /\ MigQuiet /\ StatQuiet /\ OpQuiet /\ NetQuiet /\ AttQuiet /\ ImgQuiet /\ DiagQuiet /\ RebQuiet /\ RevQuiet
InitMig == MigInit /\ ZCQuiet /\ DrvQuiet /\ ConcQuiet /\ FCQuiet /\ StatQuiet /\ OpQuiet /\ NetQuiet /\ AttQuiet /\ ImgQuiet /\ DiagQuiet /\ RebQuiet /\ RevQuiet
InitStat == StatInit /\ ZCQuiet /\ DrvQuiet /\ ConcQuiet /\ FCQuiet /\ MigQuiet /\ OpQuiet /\ NetQuiet /\ AttQuiet /\ ImgQuiet /\ DiagQuiet /\ RebQuiet /\ RevQuiet
InitOp == OpInit /\ ZCQuiet /\ DrvQuiet /\ ConcQuiet /\ FCQuiet /\ MigQuiet /\ StatQuiet /\ NetQuiet /\ AttQuiet /\ ImgQuiet /\ DiagQuiet /\ RebQuiet /\ RevQuiet
InitNet == NetInit /\ ZCQuiet /\ DrvQuiet /\ ConcQuiet /\ FCQuiet /\ MigQuiet /\ StatQuiet /\ OpQuiet /\ AttQuiet /\ ImgQuiet /\ DiagQuiet /\ RebQuiet /\ RevQuiet
InitAtt == AttInit /\ ZCQuiet /\ DrvQuiet /\ ConcQuiet /\ FCQuiet /\ MigQuiet /\ StatQuiet /\ OpQuiet /\ NetQuiet /\ ImgQuiet /\ DiagQuiet /\ RebQuiet /\ RevQuiet
InitImg == ImgInit /\ ZCQuiet /\ DrvQuiet /\ ConcQuiet /\ FCQuiet /\ MigQuiet /\ StatQuiet /\ OpQuiet /\ NetQuiet /\ AttQuiet /\ DiagQuiet /\ RebQuiet /\ RevQuiet
InitDiag == DiagInit /\ ZCQuiet /\ DrvQuiet /\ ConcQuiet /\ FCQuiet /\ MigQuiet /\ StatQuiet /\ OpQuiet /\ NetQuiet /\ AttQuiet /\ ImgQuiet /\ RebQuiet /\ RevQuiet
InitReb == RebInit /\ ZCQuiet /\ DrvQuiet /\ ConcQuiet /\ FCQuiet /\ MigQuiet /\ StatQuiet /\ OpQuiet /\ NetQuiet /\ AttQuiet /\ ImgQuiet /\ DiagQuiet /\ RevQuiet
InitRev == RevInit /\ ZCQuiet /\ DrvQuiet /\ ConcQuiet /\ FCQuiet /\ MigQuiet /\ StatQuiet /\ OpQuiet /\ NetQuiet /\ AttQuiet /\ ImgQuiet /\ DiagQuiet /\ RebQuiet

SpecZC == InitZC /\ [][ZCNext]_allVars
SpecDrv == InitDrv /\ [][DrvNext]_allVars
SpecConc == InitConc /\ [][ConcNext]_allVars
SpecFC == InitFC /\ [][FCNext]_allVars
SpecMig == InitMig /\ [][MigNext]_allVars
SpecStat == InitStat /\ [][StatNext]_allVars
SpecOp == InitOp /\ [][OpNext]_allVars
SpecNet == InitNet /\ [][NetNext]_allVars
SpecAtt == InitAtt /\ [][AttNext]_allVars
SpecImg == InitImg /\ [][ImgNext]_allVars
SpecDiag == InitDiag /\ [][DiagNext]_allVars
SpecReb == InitReb /\ [][RebNext]_allVars
SpecRev == InitRev /\ [][RevNext]_allVars


------------------------------------------------------------------------------
(* Claims about spawn and destroy, checked under SpecDrv *)

Lifecycle == {"create", "install", "attach", "boot", "halt", "uninstall", "delete"}
\* The entries of the log that are lifecycle verbs, in order.
RECURSIVE OnlyVerbs(_)
OnlyVerbs(l) ==
    IF l = <<>> THEN <<>>
    ELSE IF Head(l)[1] \in Lifecycle THEN <<Head(l)>> \o OnlyVerbs(Tail(l))
    ELSE OnlyVerbs(Tail(l))
OkBefore(k, verbs) ==
    \E j \in 1..(k - 1) : dlog[j][1] \in verbs /\ dlog[j][3] = "ok"
AllOkBefore(k) == \A j \in 1..(k - 1) : dlog[j][3] = "ok"

\* C7: destroy of an instance whose zone does not exist returns without
\* error and issues no power-off, uninstall or delete; so does a destroy
\* that follows a destroy which removed the zone.
C7_DestroyAbsentZone ==
    (dop = "destroy" /\ dstart = NoZone) =>
        /\ \A k \in 1..Len(dlog) : dlog[k][1] \notin {"halt", "uninstall", "delete"}
        /\ zstate = NoZone
        /\ dres \in {"none", "ok"}
        /\ dpc = "done" => dres = "ok"

\* A destroy removed the zone, and the destroy after it has returned.
C7_Witness ==
    /\ dprev.op = "destroy" /\ dprev.res = "ok"
    /\ dprev.zstart # NoZone /\ dprev.zend = NoZone
    /\ dop = "destroy" /\ dpc = "done" /\ dres = "ok" /\ dstart = NoZone
    /\ inst.task_state = "none" /\ ~inst.evac_from

\* C8: spawn creates the configuration, then installs (or attaches), then
\* powers on, each step started only after the steps before it succeeded;
\* when nothing fails and power_on is asked for, the zone goes
\* absent -> configured -> installed -> running and spawn returns.
C8_SpawnOrder ==
    (/\ dop = "spawn"
     /\ \/ dpc \notin {"sp_cleanup_uninstall", "sp_cleanup_delete", "done"}
        \/ dpc = "done" /\ dres = "ok") =>
        /\ \A k \in 1..Len(dlog) :
             /\ dlog[k][1] \in {"install", "attach"}
                   => OkBefore(k, {"create"}) /\ AllOkBefore(k)
             /\ dlog[k][1] = "boot"
                   => OkBefore(k, {"install", "attach"}) /\ AllOkBefore(k)
        /\ (dpc = "done" /\ ~dfail /\ inst.power_on) =>
             /\ zstate = "running"
             /\ \E v \in {"install", "attach"} :
                  OnlyVerbs(dlog) = << <<"create", NoZone, "ok">>,
                                       <<v, "configured", "ok">>,
                                       <<"boot", "installed", "ok">> >>

\* The order of the steps also holds of a spawn that fails: the cleanup only
\* adds an uninstall and a delete after them.
C8_SpawnOrderAlways ==
    dop = "spawn" =>
        \A k \in 1..Len(dlog) :
             /\ dlog[k][1] \in {"install", "attach"} => OkBefore(k, {"create"})
             /\ dlog[k][1] = "boot" => OkBefore(k, {"install", "attach"})

C8_SpawnRuns == C8_SpawnOrder /\ C8_SpawnOrderAlways

\* A spawn with power_on returned with the zone running.
C8_Witness ==
    /\ dop = "spawn" /\ dpc = "done" /\ dres = "ok" /\ ~dfail /\ inst.power_on
    /\ dstart = NoZone /\ zstate = "running" /\ Len(OnlyVerbs(dlog)) = 3

\* C9: a destroy of an existing zone (not one of the early returns) issues
\* the hard power-off only in a running power state, the uninstall only in
\* the shut-down one, the deletion only in the no-state class, in that
\* order; when no verb fails it ends with no zone of that name.
RunningClass == {"ready", "running", "shutting_down", "down"}
NoStateClass == {"configured", "incomplete", "unavailable", "mounted"}
EarlyReturn(i) ==
    \/ i.task_state = "resize_reverting" /\ i.old_vm_state = "resized"
    \/ i.evac_from /\ i.task_state = "none"
Rank(verb) == CASE verb = "halt" -> 1 [] verb = "uninstall" -> 2
                [] verb = "delete" -> 3 [] OTHER -> 0
C9_DestroyTeardown ==
    (dop = "destroy" /\ dstart # NoZone) =>
        /\ \A k \in 1..Len(dlog) :
             /\ dlog[k][1] = "halt" => dlog[k][2] \in RunningClass
             /\ dlog[k][1] = "uninstall" => dlog[k][2] = "installed"
             /\ dlog[k][1] = "delete" => dlog[k][2] \in NoStateClass
             /\ dlog[k][1] \in {"create", "install", "attach", "boot"} => FALSE
        /\ \A j, k \in 1..Len(dlog) :
             (j < k /\ Rank(dlog[j][1]) > 0 /\ Rank(dlog[k][1]) > 0)
                 => Rank(dlog[j][1]) < Rank(dlog[k][1])
        /\ (dpc = "done" /\ ~dfail /\ ~EarlyReturn(inst)) =>
             /\ zstate = NoZone
             /\ dres = "ok"
             /\ LET verbs == OnlyVerbs(dlog)
                IN  /\ Len(verbs) > 0
                    /\ verbs[Len(verbs)][1] = "delete" /\ verbs[Len(verbs)][3] = "ok"
                    /\ verbs[Len(verbs)][2] = "configured" \/ dstart \in NoStateClass

\* A destroy took a running zone down through halt, uninstall and delete.
C9_Witness ==
    /\ dop = "destroy" /\ dpc = "done" /\ dres = "ok" /\ ~dfail
    /\ dstart = "down" /\ zstate = NoZone
    /\ OnlyVerbs(dlog) = << <<"halt", "down", "ok">>,
                            <<"uninstall", "installed", "ok">>,
                            <<"delete", "configured", "ok">> >>

\* C10: spawn of a kernel zone whose memory is no multiple of 256 MB raises
\* MemoryAlignmentIncorrect before any configuration is created and before
\* any other backend or image operation.
C10_KzAlignment ==
    (/\ dop = "spawn" /\ Brand(inst) = ZONE_BRAND_SOLARIS_KZ
     /\ inst.memory_mb % 256 # 0) =>
        /\ dlog = <<>>
        /\ zstate = dstart
        /\ dpc \in {"sp_validate", "done"}
        /\ dpc = "done" => dres = "MemoryAlignmentIncorrect"

\* A kernel-zone spawn with 2000 MB was refused.
C10_Witness ==
    /\ dop = "spawn" /\ dpc = "done" /\ dres = "MemoryAlignmentIncorrect"
    /\ inst.brand = "solaris-kz" /\ inst.memory_mb = 2000 /\ dlog = <<>>


------------------------------------------------------------------------------
(* Claims about edit sessions under interleaving, checked under SpecConc *)

\* C5: whatever two operations run on the zone and however they interleave
\* at their suspension points, at most one edit session is open on the zone,
\* and every mutation call is issued with a session open.
C5_OneSessionPerZone ==
    /\ copen["t1"] + copen["t2"] <= 1
    /\ clast.ev = "m" => clast.open = 1 /\ copen[clast.thr] = 1

\* One operation is suspended in the middle while the other mutates the
\* configuration inside its session.
C5_Witness ==
    \E t, u \in Threads :
        /\ t # u /\ crun = t
        /\ clast = [thr |-> t, ev |-> "m", open |-> 1] /\ copen[t] = 1
        /\ cthr[u].op = "spawn" /\ cthr[u].pc > 1 /\ ~AtEnd(u)
        /\ Evs(u)[cthr[u].pc - 1] = "Y"


------------------------------------------------------------------------------
(* Claims about the resolution of connection descriptors, under SpecFC *)

Lookups == Len(SelectSeq(flog, LAMBDA c : c[1] = "suriadm lookup-uri"))
NoOnlineInitiator ==
    \A k \in 1..Len(fports) :
        ~(fports[k].mode = "Initiator" /\ fports[k].state = "online")

\* C11: resolving a fibre_channel descriptor on a host without an online
\* initiator port (no port at all, or none online) fails with the 'no
\* initiator found' error and makes no URI lookup attempt.
C11_NoOnlineInitiatorFailsAtOnce ==
    (fconn.driver_volume_type = "fibre_channel" /\ NoOnlineInitiator) =>
        /\ Lookups = 0
        /\ fpc = "done" => fres = "InvalidVolume: no initiator found"

\* What holds of the code: without any parsed HBA port the resolution fails
\* at once.
C11_NoHbaFailsAtOnce ==
    (fconn.driver_volume_type = "fibre_channel"
       /\ fpc \notin {"idle", "type", "hbas"} /\ fhbas = <<>>) =>
        /\ Lookups = 0
        /\ fpc = "done" /\ fres = "InvalidVolume: no initiator found"


------------------------------------------------------------------------------
(* Claims about resize and migration, checked under SpecMig *)

CleanupCalls == {"volume_detach_new", "volume_delete_new", "initialize_connection_old",
                 "volume_attach_old", "bdm_restore", "destroy"}
CleanupFailed == \E k \in 1..Len(mlog) : mlog[k][1] \in CleanupCalls /\ mlog[k][2] = "fail"
FinishFailed == mop = "finish_migration" /\ mpc = "done" /\ merr # NoFail

\* C12: when finish_migration fails after the new root volume was attached
\* and before power-on completes, the new volume is detached and deleted, the
\* original root volume is attached again, and the caller gets that error.
C12_FailedFinishRestoresVolumes ==
    (FinishFailed /\ mwas.new = "attached"
       /\ merr[1] \in {"switch", "create", "power_on"}) =>
        /\ mvol = [old |-> "attached", new |-> "deleted"]
        /\ mres = merr[2]

\* What holds of the code: the same, as long as no call of the cleanup fails.
C12_RestoredWhenCleanupSucceeds ==
    (FinishFailed /\ mwas.new = "attached" /\ ~CleanupFailed) =>
        /\ mvol = [old |-> "attached", new |-> "deleted"]
        /\ mres = merr[2]

Shrinks == mop = "migrate_disk_and_power_off" /\ marg.new_root_gb < marg.root_gb

\* C13 as stated: a resize to a smaller root disk is refused with the resize
\* error, with no backend operation issued.
C13_ShrinkRefusedWithResizeError ==
    Shrinks =>
        /\ mlog = <<>> /\ mvol = NoVols
        /\ mpc \in {"md_check", "done", "idle"}
        /\ mpc # "md_check" => mres = "ResizeError: smaller boot volume"

\* C13: a resize to a smaller root disk is refused before any backend
\* operation (no power-off, no volume created, extended or deleted): with the
\* resize error when the brand checks pass, with the pre-check error of the
\* brand check that fails otherwise.
C13_ShrinkRefusedBeforeMutation ==
    Shrinks =>
        /\ mlog = <<>> /\ mvol = NoVols
        /\ mpc \in {"md_check", "done", "idle"}
        /\ mpc # "md_check" =>
             mres = IF migrate_precheck_any_size(marg) # "none"
                    THEN migrate_precheck_any_size(marg)
                    ELSE "ResizeError: smaller boot volume"

\* A shrinking resize whose brand checks pass was refused with the resize error.
C13_Witness ==
    /\ Shrinks /\ mpc = "done" /\ mres = "ResizeError: smaller boot volume"
    /\ marg.brand = marg.new_brand /\ marg.brand # "unset" /\ mlog = <<>>

BrandDiffers == get_brand_default(marg.brand) # get_brand_default(marg.new_brand)
PreCheckErrors == {"MigrationPreCheckError: resize to a different host",
                   "MigrationPreCheckError: change of brand"}

\* C14: migrate_disk_and_power_off refuses the request for a change of brand,
\* before it powers the instance off, exactly when the brand of the target
\* flavor differs from the instance's, an unset brand counting as 'solaris'
\* on both sides.
C14_RefusedIffBrandDiffers ==
    (mop = "migrate_disk_and_power_off" /\ mpc = "done") =>
        /\ BrandDiffers => mres \in PreCheckErrors /\ mlog = <<>>
        /\ mres = "MigrationPreCheckError: change of brand" => BrandDiffers

\* C19 (finish_migration): when a step fails and the cleanup fails too, the
\* caller still receives the error of the step.
C19_CleanupFailureKeepsError ==
    FinishFailed => mres = merr[2]

\* C19 (spawn): the caller of a failed spawn receives the error of the step
\* that failed, whatever uninstall and delete answered in the cleanup.
C19_SpawnKeepsError ==
    (dop = "spawn" /\ dpc = "done" /\ derr # "none") => dres = derr

------------------------------------------------------------------------------
(* Claims about _get_cpu_time                                               *)

\* The attempt read the accumulator twice and found one generation number.
StableAttempt == kinit.ok /\ kfinal.ok /\ kinit.gen_num = kfinal.gen_num

\* C15: in the first attempt whose generation number is the same before and
\* after the per-CPU reads, _get_cpu_time returns the sum of the kernel and
\* user current times read from the CPUs in that attempt plus the carried
\* user and kernel times of the accumulator; what earlier attempts had summed
\* is not part of it.
C15_StableAttemptSum ==
    StableAttempt =>
        /\ kpc \in {"done", "idle"}
        /\ kres = Value(SumSeq(kreads) + kinit.cpu_nsec_user + kinit.cpu_nsec_kernel)

\* A second attempt that is stable, after a first one that had read two CPUs
\* and was abandoned at the comparison.
C15_Witness ==
    /\ kpc = "done" /\ StableAttempt
    /\ kattempt = 2 /\ kn = 10 /\ Len(kreads) = 2
    /\ kres.val > 0

\* C16: _get_cpu_time makes at most 3 attempts, and when every attempt saw the
\* generation number change or a statistics read fail it returns 0 and does
\* not raise.
C16_ThreeAttemptsThenZero ==
    /\ kpc \in {"cpus", "cpu", "final"} => kattempt <= 3
    /\ kpc = "done" /\ ~StableAttempt => kres = Value(0)

\* C16, what holds: no more than 3 attempts are made, and once they are used
\* up the result is 0.
C16_AtMostThreeAttempts ==
    /\ kpc \in {"cpus", "cpu", "final"} => kattempt <= 3
    /\ kpc = "done" /\ kattempt > 3 => kres = Value(0)

\* C17: once _get_cpu_time has seen the zone not running, at entry or after a
\* failed read of the CPU list or of one CPU, it returns 0 in the same attempt
\* and reads no further statistics.
C17_NotRunningReturnsZero ==
    kstop.at # "none" =>
        /\ kpc \in {"done", "idle"}
        /\ kres = Value(0)
        /\ kattempt = kstop.attempt
        /\ kn = kstop.n

\* The zone is seen stopped after the read of a CPU fails in a second attempt.
C17_Witness ==
    /\ kpc = "done" /\ kstop.at = "cpu" /\ kattempt = 2
    /\ Len(kreads) = 1

------------------------------------------------------------------------------
(* Claims about the cleanup of a failed spawn                               *)

\* A spawn that failed inside its try block and has left its except block.
SpawnFailedInTry == dop = "spawn" /\ dpc = "done" /\ derr # "none"
\* The backend calls of the cleanup.
CleanupIdx == {k \in 1..Len(dlog) : dlog[k][1] \in {"uninstall", "delete"}}

\* C18: after a spawn that failed between the creation of the configuration
\* and the config-drive handling, and whose cleanup calls to the backend all
\* succeeded, the zone of the instance does not exist; the cleanup calls
\* uninstall before delete, and a failed uninstall is followed by a delete.
C18_FailedSpawnLeavesNoZone ==
    SpawnFailedInTry =>
        /\ (\A k \in CleanupIdx : dlog[k][3] = "ok") => zstate = NoZone
        /\ \A j, k \in CleanupIdx :
             (dlog[k][1] = "uninstall" /\ dlog[j][1] = "delete") => k < j
        /\ \A k \in CleanupIdx :
             (dlog[k][1] = "uninstall" /\ dlog[k][3] = "fail") =>
                 \E j \in CleanupIdx : j > k /\ dlog[j][1] = "delete"

\* A zone that spawn created and installed is uninstalled and deleted after a
\* later step failed.
C18_Witness ==
    /\ SpawnFailedInTry /\ dstart = NoZone /\ zstate = NoZone
    /\ \E k \in CleanupIdx : dlog[k][1] = "uninstall" /\ dlog[k][3] = "ok"
    /\ \E k \in CleanupIdx : dlog[k][1] = "delete" /\ dlog[k][3] = "ok"
    /\ \E k \in 1..Len(dlog) : dlog[k][1] \in {"install", "attach"} /\ dlog[k][3] = "ok"

\* C20: a spawn that fails, for whatever reason, leaves the zone as it was
\* before the call, also when it fails because the zone already existed.
C20_FailedSpawnRestoresPlatform ==
    (dop = "spawn" /\ dpc = "done" /\ dres # "ok") => zstate = dstart

\* C20, what holds: a spawn that fails before its try block issues no backend
\* verb and leaves the zone as it was.
C20_FailureBeforeTryChangesNothing ==
    (dop = "spawn" /\ dpc = "done" /\ dres # "ok" /\ derr = "none") =>
        /\ zstate = dstart
        /\ \A k \in 1..Len(dlog) : dlog[k][1] \notin Lifecycle

------------------------------------------------------------------------------
(* Claims about _power_on and _power_off, checked under SpecOp              *)

OpDone(op) == oop = op /\ opc = "done"
Logged(name) == \E k \in 1..Len(olog) : olog[k][1] = name
LoggedAs(name, out) == \E k \in 1..Len(olog) : olog[k] = <<name, out>>
\* The metadata asked for boot arguments and did not mark them persistent.
NonPersistentBootargs ==
    /\ oconf
    /\ owas.meta.bootargs # None
    /\ owas.meta.bootargs_persist \in {None, "False", "FALSE"}

\* C21: with boot options enabled and metadata bootargs that are not marked
\* persistent, once _power_on has attempted the boot and ended, the metadata
\* holds neither bootargs nor bootargs_persist, whether the boot succeeded
\* or raised.
C21_NonPersistentBootargsConsumed ==
    (OpDone("power_on") /\ NonPersistentBootargs /\ Logged("boot")) =>
        ometa = NoMeta

\* The boot failed and bootargs_persist was given as 'FALSE'.
C21_Witness ==
    /\ OpDone("power_on") /\ NonPersistentBootargs
    /\ LoggedAs("boot", "fail")
    /\ owas.meta.bootargs_persist = "FALSE"
    /\ ometa = NoMeta

\* _power_on cleared the configured boot arguments and went on to boot.
TemporarilyCleared == oloc.reset_bootargs /\ Logged("boot")

\* C22: when _power_on has temporarily cleared the configured boot arguments
\* and ends by returning or by raising the power-on failure, the committed
\* bootargs of the zone are those it had before the call.
C22_BootargsRestored ==
    (OpDone("power_on") /\ TemporarilyCleared
        /\ ores \in {"ok", "InstancePowerOnFailure"}) =>
        ozone.bootargs = owas.zone.bootargs

\* The boot failed after the arguments '-v' had been cleared; they are back.
C22_Witness ==
    /\ OpDone("power_on") /\ TemporarilyCleared
    /\ ores = "InstancePowerOnFailure"
    /\ owas.zone.bootargs = "-v" /\ ozone.bootargs = "-v"
    /\ LoggedAs("clearResourceProperties", "ok")
    /\ LoggedAs("setResourceProperties", "ok")

\* The shutdown or halt call of _power_off raised.
HaltRaised == LoggedAs("shutdown", "fail") \/ LoggedAs("halt", "fail")

\* C23: when the shutdown or halt call of _power_off raises, _power_off
\* returns normally exactly if the zone's power state is then SHUTDOWN, and
\* raises InstancePowerOffFailure otherwise.
C23_PowerOffErrorTolerated ==
    (OpDone("power_off") /\ HaltRaised) =>
        /\ ores = "ok" <=> get_state(ozone.state) = "SHUTDOWN"
        /\ ores # "ok" => ores = "InstancePowerOffFailure"

\* A halt that raised although it brought the running zone down.
C23_Witness ==
    /\ OpDone("power_off") /\ HaltRaised
    /\ owas.zone.state = "running" /\ ozone.state = "installed"
    /\ ores = "ok"

------------------------------------------------------------------------------
(* Claims about suspend and resume, checked under SpecOp                    *)

\* C27: suspend and resume of a zone that is not a kernel zone are refused
\* with InstanceSuspendFailure and InstanceResumeFailure, and issue no backend
\* verb and no configuration edit.
C27_OnlyKernelZonesSuspend ==
    (opc = "done" /\ oop \in {"suspend", "resume"}
        /\ owas.zone.exists /\ owas.zone.brand # ZONE_BRAND_SOLARIS_KZ) =>
        /\ ores = IF oop = "suspend" THEN "InstanceSuspendFailure"
                  ELSE "InstanceResumeFailure"
        /\ olog = <<>>
        /\ ozone = owas.zone

\* A running native zone is asked to suspend.
C27_Witness ==
    /\ OpDone("suspend") /\ owas.zone.exists
    /\ owas.zone.brand = ZONE_BRAND_SOLARIS /\ owas.zone.state = "running"
    /\ ores = "InstanceSuspendFailure"

ConfigCalls == {"editConfig", "addResource", "removeResources", "commitConfig",
                "cancelConfig"}
Pos(name) == CHOOSE k \in 1..Len(olog) : olog[k][1] = name

\* C28 as stated: in suspend the suspend resource is made current and
\* committed, then the interfaces are unplugged, then the zone is suspended.
C28_UnplugBeforeSuspend ==
    (oop = "suspend" /\ Logged("suspend")) =>
        /\ ozone.suspend = "new"
        /\ \A k \in 1..Len(olog) : olog[k][1] \in ConfigCalls => k < Pos("suspend")
        /\ Logged("unplug_vifs") /\ Pos("unplug_vifs") < Pos("suspend")

\* C28: in suspend the suspend resource is made current and committed, then
\* the zone is suspended, then the interfaces are unplugged.
C28_SuspendBeforeUnplug ==
    (oop = "suspend" /\ Logged("suspend")) =>
        /\ ozone.suspend = "new"
        /\ \A k \in 1..Len(olog) : olog[k][1] \in ConfigCalls => k < Pos("suspend")
        /\ Logged("unplug_vifs") => Pos("suspend") < Pos("unplug_vifs")
        /\ (opc = "done" /\ ores = "ok") => Logged("unplug_vifs")

\* A suspend that replaced a stale suspend resource and went through.
C28_Witness ==
    /\ OpDone("suspend") /\ ores = "ok"
    /\ owas.zone.suspend = "old" /\ ozone.suspend = "new"
    /\ LoggedAs("removeResources", "ok") /\ LoggedAs("addResource", "ok")
    /\ Logged("unplug_vifs")

------------------------------------------------------------------------------
(* Claims about live migration, checked under SpecOp                        *)

\* C29: check_can_live_migrate_destination raises MigrationPreCheckError and
\* returns no migrate data whenever the brand of the instance is not the
\* kernel-zone brand, or block migration or disk overcommit is requested.
C29_DestinationRefuses ==
    (OpDone("check_can_live_migrate_destination")
        /\ \/ get_brand_default(oarg.brand) # ZONE_BRAND_SOLARIS_KZ
           \/ oarg.block_migration
           \/ oarg.disk_over_commit) =>
        ores = "MigrationPreCheckError"

\* A kernel zone between hosts of one architecture, refused for the disk
\* overcommit alone.
C29_Witness ==
    /\ OpDone("check_can_live_migrate_destination")
    /\ oarg.brand = ZONE_BRAND_SOLARIS_KZ /\ oarg.src_arch = oarg.dst_arch
    /\ ~oarg.block_migration /\ oarg.disk_over_commit
    /\ ores = "MigrationPreCheckError"

\* The dry run of check_can_live_migrate_source did not go through.
DryRunFailed == LoggedAs("migrate_dry_run", "fail") \/ ~owas.zone.exists

\* C30 as stated: a failed dry run reaches the caller as
\* MigrationPreCheckError, a failed transfer in live_migration as the
\* backend's own error.
C30_TransferErrorIsBackendError ==
    /\ (OpDone("check_can_live_migrate_source") /\ ~oarg.local_volume /\ DryRunFailed)
           => ores = "MigrationPreCheckError"
    /\ (OpDone("live_migration") /\ LoggedAs("migrate", "fail"))
           => ores = "BackendError"

\* C30: a failed dry run reaches the caller as MigrationPreCheckError; a
\* failed transfer in live_migration never does, and reaches the caller as
\* the backend's own error whenever recover_method returns.
C30_DryRunIsPreCheckTransferIsNot ==
    /\ (OpDone("check_can_live_migrate_source") /\ ~oarg.local_volume /\ DryRunFailed)
           => ores = "MigrationPreCheckError"
    /\ (OpDone("live_migration") /\ LoggedAs("migrate", "fail")) =>
           /\ ores # "MigrationPreCheckError"
           /\ Logged("recover_method")
           /\ LoggedAs("recover_method", "ok") => ores = "BackendError"

\* A transfer that failed and was recovered.
C30_Witness ==
    /\ OpDone("live_migration") /\ LoggedAs("migrate", "fail")
    /\ LoggedAs("recover_method", "ok") /\ ores = "BackendError"

------------------------------------------------------------------------------
(* Claims about the error handling of destroy, checked under SpecDrv        *)

Teardown == {"halt", "uninstall", "delete"}
\* A teardown call of the backend failed.
TeardownFailed ==
    \E k \in 1..Len(dlog) : dlog[k][1] \in Teardown /\ dlog[k][3] = "fail"
\* The state in which call k of the log left the zone.
StateAfter(k) == IF k < Len(dlog) THEN dlog[k + 1][2] ELSE zstate
\* Call k is a teardown step that raised: an uninstall or a delete that failed,
\* or a halt that failed and did not reach the shut-down state.
StepRaised(k) ==
    /\ dlog[k][1] \in Teardown /\ dlog[k][3] = "fail"
    /\ dlog[k][1] = "halt" => get_state(StateAfter(k)) # "SHUTDOWN"

\* C24: a failure of the power-off, the uninstall or the deletion of the
\* configuration inside destroy is caught: destroy returns normally.
C24_TeardownErrorsCaught ==
    (dop = "destroy" /\ dpc = "done" /\ TeardownFailed) => dres = "ok"

\* The uninstall failed, the zone is still there, destroy returned.
C24_Witness ==
    /\ dop = "destroy" /\ dpc = "done" /\ dres = "ok"
    /\ \E k \in 1..Len(dlog) : dlog[k][1] = "uninstall" /\ StepRaised(k)
    /\ zstate # NoZone

\* C25 as stated: after a teardown step of destroy has failed, the removal of
\* the config-drive file and of the instance directory are still attempted.
C25_FilesRemovedAfterFailure ==
    (dop = "destroy" /\ dpc = "done" /\ \E k \in 1..Len(dlog) : StepRaised(k)) =>
        /\ \E j \in 1..Len(dlog) : dlog[j][1] = "delete_instance_dir"
        /\ inst.configdrive => \E j \in 1..Len(dlog) : dlog[j][1] = "remove_configdrive"

\* C25: the first teardown step of destroy that raises ends the teardown: no
\* later step and no removal of the config-drive file or of the instance
\* directory is attempted, only the cleanup of the volumes a resize left.
C25_FailureEndsTeardown ==
    dop = "destroy" =>
        \A k \in 1..Len(dlog) :
            StepRaised(k) =>
                \A j \in (k + 1)..Len(dlog) : dlog[j][1] = "volume_delete"

\* The halt of a running zone failed; destroy went on to delete a volume.
C25_Witness ==
    /\ dop = "destroy" /\ dpc = "done" /\ dres = "ok"
    /\ Len(dlog) > 1
    /\ dlog[Len(dlog) - 1][1] = "halt" /\ StepRaised(Len(dlog) - 1)
    /\ dlog[Len(dlog)][1] = "volume_delete"
    /\ inst.configdrive

\* C26: destroy deletes no volume that a resize left behind while the task
\* state of the instance is resize-reverting.
C26_NoVolumeCleanupWhileReverting ==
    (dop = "destroy" /\ inst.task_state = "resize_reverting") =>
        \A k \in 1..Len(dlog) : dlog[k][1] # "volume_delete"

\* A destroy during a revert that removed the zone and left the volumes.
C26_Witness ==
    /\ dop = "destroy" /\ dpc = "done" /\ inst.task_state = "resize_reverting"
    /\ inst.old_vm_state = "active" /\ inst.volids # {}
    /\ dstart # NoZone /\ zstate = NoZone

------------------------------------------------------------------------------
(* Claims about the lookup of a fibre-channel URI, checked under SpecFC     *)

IsLookup(k) == flog[k][1] = "suriadm lookup-uri"
Missed == Len(SelectSeq(flog, LAMBDA c : c[1] = "suriadm lookup-uri" /\ c[3] # "found"))

\* C31: the lookup of a fibre-channel URI makes at most 3 attempts, sleeps 2
\* between two attempts whichever attempt it was, returns the first URI found
\* without a further lookup, and raises the 'unable to lookup URI' error
\* exactly when all 3 attempts found none.
C31_ThreeLookupAttempts ==
    fconn.driver_volume_type = "fibre_channel" =>
        /\ \A k \in 1..Len(flog) : IsLookup(k) => flog[k][2] \in 1..3
        /\ \A k \in 1..Len(flog) : flog[k][1] = "sleep" => flog[k][2] = 2
        /\ \A k \in 1..(Len(flog) - 1) :
              (IsLookup(k) /\ IsLookup(k + 1)) => flog[k][2] = flog[k + 1][2]
        /\ \A k \in 1..Len(flog) :
              (IsLookup(k) /\ flog[k][3] = "found") =>
                  k = Len(flog) /\ fpc \in {"done", "idle"} /\ fres = "suri"
        /\ fpc = "done" =>
              (fres = "InvalidVolume: unable to lookup URI"
                  <=> Missed = 3 * fconn.nwwn)

\* Two target WWNs, none of them found in any of the three attempts.
C31_Witness ==
    /\ fconn.driver_volume_type = "fibre_channel" /\ fconn.nwwn = 2
    /\ fpc = "done" /\ fres = "InvalidVolume: unable to lookup URI"
    /\ Lookups = 6
    /\ \E k \in 1..Len(flog) : flog[k][1] = "sleep" /\ k < Len(flog)

------------------------------------------------------------------------------
(* Claims about the network resources, checked under SpecNet                *)

\* C32: after _set_network on a new configuration with n >= 1 interfaces the
\* committed configuration holds exactly n anet resources, the k-th carrying
\* the MAC address of the k-th interface: the first interface is set on the
\* default resource, every later one adds a resource.
C32_OneAnetPerVif ==
    (npc = "done" /\ nres = "ok" /\ Len(nvifs) >= 1) =>
        /\ Len(nanets) = Len(nvifs)
        /\ \A k \in 1..Len(nvifs) :
              /\ nanets[k]["mac-address"] = MacAddresses[k]
              /\ nanets[k]["lower-link"] = nvifs[k].lower_link
        /\ Len(nlog) = Len(nvifs)
        /\ \A k \in 1..Len(nlog) :
              nlog[k] = <<IF k = 1 THEN "setprop" ELSE "addresource", k>>

\* Two interfaces were configured.
C32_Witness ==
    /\ npc = "done" /\ nres = "ok"
    /\ Len(nvifs) = 2 /\ Len(nanets) = 2
    /\ nanets[1]["mtu"] = "1500" /\ nanets[2]["vlan-id"] = "5"

------------------------------------------------------------------------------
(* Claims about finish_migration, checked under SpecMig                     *)

NoCallFailed == \A k \in 1..Len(mlog) : mlog[k][2] # "fail"
ZoneChanged ==
    \E k \in 1..Len(mlog) :
        mlog[k] \in {<<"set_num_cpu", "ok">>, <<"set_memory_cap", "ok">>,
                     <<"set_boot_device", "ok">>}

\* C33: when every backend call succeeds, a finish_migration on another host
\* ends with a new zone whose boot device is the replacement root volume, the
\* zone attached, the other volumes attached again and, if power_on is asked
\* for, the zone booted; the cleanup is not entered.
C33_CrossHostFinishCompletes ==
    (mop = "finish_migration" /\ ~marg.samehost /\ mpc = "done" /\ NoCallFailed) =>
        /\ mres = "ok" /\ merr = NoFail
        /\ mzone.exists /\ mzone.boot = "new"
        /\ <<"zone_attach", "ok">> \in Elems(mlog)
        /\ <<"attach_volumes", "ok">> \in Elems(mlog)
        /\ marg.power_on => mpow = "on"

\* C34: when a finish_migration on the same host fails after it changed the
\* caps of the zone or switched its boot device, and the cleanup makes all
\* its calls, the caps and the boot device of the zone are those it had
\* before the resize when the error reaches the caller.
C34_SameHostFailureRestoresZone ==
    (FinishFailed /\ marg.samehost /\ ~CleanupFailed /\ ZoneChanged) =>
        mzone = OldZone

------------------------------------------------------------------------------
(* Claims about attach_volume, checked under SpecAtt                        *)

\* C35: in attach_volume a failure of the backend while the device resource
\* is added ends the step: attach_volume raises to its caller and does not
\* apply the configuration to the running zone.
C35_AddFailureIsTerminal ==
    (apc = "done" /\ <<"addresource", "fail">> \in {alog[k] : k \in 1..Len(alog)}) =>
        /\ ares # "ok"
        /\ \A k \in 1..Len(alog) : alog[k][1] # "apply"

------------------------------------------------------------------------------
(* Claims about the glance cache, checked under SpecImg                     *)

InSection(t) == ithr[t].pc \in {"check", "fetch", "fetching", "rename", "unlock"}

\* C36: of the spawns of one image at most one at a time is between the look
\* at the cache and the rename; when the first download succeeds no second
\* one is started; and the image path never holds a partial download.
C36_FetchImageExclusive ==
    /\ \A t, u \in Spawns : (InSection(t) /\ InSection(u)) => t = u
    /\ (ilog # <<>> /\ ilog[1][2] = "ok") => Len(ilog) = 1
    /\ ifiles.image # "partial"
    /\ \A t \in Spawns : ithr[t].res = "image" => ifiles.image = "complete"

\* The first spawn's download failed, the second one downloaded the image,
\* and both have left _fetch_image.
C36_Witness ==
    /\ Len(ilog) = 2 /\ ilog[1][2] = "fail" /\ ilog[2][2] = "ok"
    /\ ilog[1][1] # ilog[2][1]
    /\ ifiles.image = "complete"
    /\ \A t \in {ilog[1][1], ilog[2][1]} : ithr[t].pc = "done"

------------------------------------------------------------------------------
(* Claims about _get_zone_diagnostics, checked under SpecDiag               *)

CleanRead == SumSeq(greads) + ginit.cpu_nsec_user

\* C37: when _get_zone_diagnostics succeeds on its second or third attempt,
\* the CPU statistic it returns is the per-CPU sum of that attempt plus the
\* carried value of the accumulator, with nothing of the abandoned attempts.
C37_RetryReturnsCleanRead ==
    (gpc = "done" /\ gres.kind = "value" /\ gattempt >= 2) => gres.val = CleanRead

\* What holds of the code: a first attempt that succeeds returns that value.
C37_FirstAttemptIsClean ==
    (gpc = "done" /\ gres.kind = "value" /\ gattempt = 1) => gres.val = CleanRead

------------------------------------------------------------------------------
(* Claims about rebuild and destroy, checked under SpecReb                  *)

Rejected ==
    /\ rpc = "done" /\ rarg.op = "rebuild" /\ rarg.recreate
    /\ get_brand_default(rarg.brand) = ZONE_BRAND_SOLARIS
    /\ rres = "NovaException"

\* C38: a rebuild with recreate=True that is rejected for the brand 'solaris'
\* leaves the persisted metadata as it found it, without an 'evac_from'
\* marker that would divert a later destroy with no task state.
C38_RejectedRebuildKeepsMetadata ==
    Rejected => (rmeta = rarg.before /\ "evac_from" \notin rmeta)

\* What holds of the code: the rejected rebuild leaves the marker persisted,
\* and a destroy with no task state that finds the marker removes it, resets
\* the host and leaves the zone alone.
C38_RejectedRebuildLeavesMarker ==
    /\ Rejected => rmeta = rarg.before \cup {"evac_from"}
    /\ (rarg.op = "destroy" /\ rarg.task = "none" /\ rpc = "done"
          /\ "evac_from" \in rarg.before)
        => (rzone = rarg.zone /\ "evac_from" \notin rmeta
            /\ rhost = "launched_on")

------------------------------------------------------------------------------
(* Claims about the callbacks of live_migration, checked under SpecOp       *)

Calls(name) == Cardinality({k \in 1..Len(olog) : olog[k][1] = name})
\* The error of the transfer: the zone was not found, or the backend failed.
TransferError ==
    IF ~owas.zone.exists THEN "InstanceNotFound"
    ELSE IF LoggedAs("migrate", "fail") THEN "BackendError" ELSE "none"

\* C39 as stated: exactly one callback is invoked, exactly once, post_method
\* when the transfer succeeded and recover_method when it failed, and after
\* recover_method the caller receives the error of the transfer.
C39_OneCallbackThenTransferError ==
    OpDone("live_migration") =>
        /\ Calls("post_method") + Calls("recover_method") = 1
        /\ Calls("post_method") = 1 <=> TransferError = "none"
        /\ Calls("recover_method") = 1 <=> TransferError # "none"
        /\ Logged("recover_method") => ores = TransferError

\* C39: exactly one callback is invoked, exactly once, post_method when the
\* transfer succeeded and recover_method when it failed; when recover_method
\* returns the caller receives the error of the transfer, and when it raises
\* the caller receives the error of recover_method.
C39_OneCallbackOnce ==
    OpDone("live_migration") =>
        /\ Calls("post_method") + Calls("recover_method") = 1
        /\ Calls("post_method") = 1 <=> TransferError = "none"
        /\ Calls("recover_method") = 1 <=> TransferError # "none"
        /\ LoggedAs("recover_method", "ok") => ores = TransferError
        /\ LoggedAs("recover_method", "fail") => ores = "RecoverError"

\* The zone was not found, recover_method was called once and returned, and
\* the caller received InstanceNotFound.
C39_Witness ==
    /\ OpDone("live_migration") /\ ~owas.zone.exists
    /\ Calls("recover_method") = 1 /\ Calls("post_method") = 0
    /\ LoggedAs("recover_method", "ok") /\ ores = "InstanceNotFound"

------------------------------------------------------------------------------
(* Claims about finish_revert_migration, checked under SpecRev              *)

\* The resize had created a replacement root volume.
Replaced == VolumeKeys \subseteq varg.meta
SameHost == "resize_samehost" \in varg.meta
NoStepFailed == \A k \in 1..Len(vlog) : vlog[k][3] = "ok"
\* The original root volume is back, the replacement is gone, the resize
\* keys are gone, and the power-on was the last call, issued once.
Reverted ==
    /\ vvol = [old |-> "attached", new |-> "deleted"]
    /\ vmeta \cap ResizeKeys = {}
    /\ vlog # <<>> /\ vlog[Len(vlog)][1] = "power_on"
    /\ \A k \in 1..(Len(vlog) - 1) : vlog[k][1] # "power_on"

C40_OnlyCrossHostReverts ==
    /\ (vpc = "done" /\ vres = "ok" /\ Replaced)
          => (Reverted /\ ~SameHost)
    /\ (vpc = "done" /\ Replaced /\ SameHost)
          => (vres # "ok" /\ \A k \in 1..Len(vlog) : vlog[k][1] # "power_on")
    /\ (vpc = "done" /\ Replaced /\ SameHost /\ NoStepFailed)
          => (vres = "KeyError" /\ vmeta = {"new_instance_volid"}
              /\ vvol = [old |-> "attached", new |-> "detached"])

==============================================================================
